---- MODULE Spec2Model ----
(***************************************************************************)
(* Negative-keyword provisioning pipeline of BeechPPC/negative-manager:    *)
(* the web-app script (doPost handlers, validateKeyword, the               *)
(* NegativeKeywords sheet operations) and the Google Ads script that       *)
(* drains the sheet (processPendingNegativeKeywords).                      *)
(*                                                                         *)
(* The NegativeKeywords sheet is a sequence of rows below the header row:  *)
(* ledger[i] is sheet row i + 1.  A cell that was never written is blank.  *)
(* Texts are sequences of one-character strings, messages are sequences    *)
(* of message parts, ids are tuples <<prefix, n>>, timestamps are          *)
(* positive clock readings; the blank cell of each kind is <<>>, <<>>,     *)
(* <<>>, 0 and "" for the remaining string-valued cells.                   *)
(***************************************************************************)
EXTENDS Integers, Sequences, FiniteSets, TLC

VARIABLES
  ledger,        \* rows of the NegativeKeywords sheet, header excluded
  triggers,      \* the ProcessingTriggers sheet: [exists, rows]
  now,           \* the reading of new Date(); the clock stands still here
  nextId,        \* source of fresh ids (Date.now() and Math.random())
  sub,           \* per web-app execution: the add-negative-keywords handler
  wpc,           \* position of the Google Ads script run
  pending,       \* pendingKeywords of the run
  cur,           \* index into pending of the keyword being processed
  result,        \* result of addNegativeKeywordToGoogleAds for pending[cur]
  successCount,  \* successCount of the run
  failureCount,  \* failureCount of the run
  allThrew,      \* every external-account call of the run so far threw
  lastReq,       \* keywords of the last add-negative-keywords call
  lastResp,      \* response of the last add-negative-keywords call
  lastRead,      \* rows the last get-negative-keywords call returned
  lastStatus,    \* response of the last processing-status call
  vIn,           \* input of the validator under test
  vOut,          \* errors validateKeyword returned for vIn
  sIn,           \* performance rows given to identifyOpportunities
  sOut,          \* candidates identifyOpportunities returned for sIn
  tIn,           \* search term given to recommendMatchType
  tOut,          \* match type recommendMatchType returned for tIn
  lIn,           \* performance row given to recommendLevel
  lOut,          \* level recommendLevel returned for lIn
  dOut,          \* metrics generateDashboardMetrics returned for sIn
  cOut,          \* metrics calculateDashboardMetrics returned for the sheet of sIn
  addCalls,      \* ids the account's add operation was invoked for, in order
  refresh,       \* reference-data refreshes main has attempted in this run
  twin           \* two runs of the script side by side, from one Ledger

vars == <<ledger, triggers, now, nextId, sub, wpc, pending, cur, result,
          successCount, failureCount, allThrew, lastReq, lastResp, lastRead,
          lastStatus, vIn, vOut, sIn, sOut, tIn, tOut, lIn, lOut, dOut, cOut,
          addCalls, refresh, twin>>

----------------------------------------------------------------------------
(* Bounds of the model *)

MaxIds == 3        \* requests ever admitted
MaxSubmitIds == 2  \* requests ever admitted where the submission path runs alone
MaxRunIds == 2     \* requests ever admitted where runs are studied one at a time
MaxFairIds == 2    \* requests ever admitted under fair scheduling
MaxBatch == 2      \* requests per submission
MaxCellIds == 2    \* requests ever admitted where cell writes are single steps
MaxFrameIds == 2   \* requests ever admitted where every web-app operation runs
MaxTriggers == 2   \* rows of the ProcessingTriggers sheet
MaxCollectIds == 2 \* requests ever admitted where the data collector runs
MaxCollected == 1  \* negative keywords of each kind the data collector finds
NumSessions == 2   \* web-app executions that may overlap
MaxPad == 1        \* extra characters beyond the length limit in test texts

(* Program constants *)

MaxKeywordLength == 80

----------------------------------------------------------------------------
(* Characters and texts *)

Letters ==
  {"a","b","c","d","e","f","g","h","i","j","k","l","m","n","o","p","q","r",
   "s","t","u","v","w","x","y","z","A","B","C","D","E","F","G","H","I","J",
   "K","L","M","N","O","P","Q","R","S","T","U","V","W","X","Y","Z"}

Digits == {"0","1","2","3","4","5","6","7","8","9"}

Whitespace == {" ", "\t", "\n", "\r", "\f"}

Punctuation == {"-", "_", ".", ",", "!", "?"}

\* /^[a-zA-Z0-9\s\-_.,!?]+$/
AllowedCharacters(text) ==
  /\ Len(text) >= 1
  /\ \A i \in 1..Len(text) :
        text[i] \in Letters \cup Digits \cup Whitespace \cup Punctuation

RECURSIVE TrimLeft(_)
TrimLeft(text) ==
  IF text = <<>> THEN <<>>
  ELSE IF Head(text) \in Whitespace THEN TrimLeft(Tail(text)) ELSE text

RECURSIVE TrimRight(_)
TrimRight(text) ==
  IF text = <<>> THEN <<>>
  ELSE IF text[Len(text)] \in Whitespace
       THEN TrimRight(SubSeq(text, 1, Len(text) - 1))
       ELSE text

\* String.prototype.trim
Trim(text) == TrimRight(TrimLeft(text))

RECURSIVE Repeat(_, _)
Repeat(c, n) == IF n = 0 THEN <<>> ELSE <<c>> \o Repeat(c, n - 1)

----------------------------------------------------------------------------
(* Request Validator *)

MatchTypes == {"EXACT", "PHRASE", "BROAD"}
Levels == {"CAMPAIGN", "AD_GROUP", "SHARED_LIST"}

\* JavaScript falsiness of a string-valued field ('' and undefined alike)
Falsy(s) == s = ""

\* as validateKeyword, but an ad group keyword needs only one of its two ids
validateKeywordAdGroupEither(keyword) ==
  (IF keyword.text = <<>> \/ Len(Trim(keyword.text)) = 0
     THEN <<"Keyword text is required">> ELSE <<>>)
  \o (IF keyword.text # <<>> /\ Len(keyword.text) > MaxKeywordLength
     THEN <<"Keyword text must be 80 characters or less">> ELSE <<>>)
  \o (IF keyword.matchType \notin MatchTypes
     THEN <<"Invalid match type. Must be EXACT, PHRASE, or BROAD">> ELSE <<>>)
  \o (IF keyword.level \notin Levels
     THEN <<"Invalid level. Must be CAMPAIGN, AD_GROUP, or SHARED_LIST">>
     ELSE <<>>)
  \o (IF keyword.level = "CAMPAIGN" /\ Falsy(keyword.campaignId)
     THEN <<"Campaign ID is required for campaign level keywords">> ELSE <<>>)
  \o (IF keyword.level = "AD_GROUP"
         /\ (Falsy(keyword.campaignId) /\ Falsy(keyword.adGroupId))
     THEN <<"Campaign ID and Ad Group ID are required for ad group level keywords">>
     ELSE <<>>)
  \o (IF keyword.level = "SHARED_LIST" /\ Falsy(keyword.sharedListId)
     THEN <<"Shared List ID is required for shared list keywords">> ELSE <<>>)

\* as validateKeyword, without the rule for ad group keywords
validateKeywordNoAdGroup(keyword) ==
  (IF keyword.text = <<>> \/ Len(Trim(keyword.text)) = 0
     THEN <<"Keyword text is required">> ELSE <<>>)
  \o (IF keyword.text # <<>> /\ Len(keyword.text) > MaxKeywordLength
     THEN <<"Keyword text must be 80 characters or less">> ELSE <<>>)
  \o (IF keyword.matchType \notin MatchTypes
     THEN <<"Invalid match type. Must be EXACT, PHRASE, or BROAD">> ELSE <<>>)
  \o (IF keyword.level \notin Levels
     THEN <<"Invalid level. Must be CAMPAIGN, AD_GROUP, or SHARED_LIST">>
     ELSE <<>>)
  \o (IF keyword.level = "CAMPAIGN" /\ Falsy(keyword.campaignId)
     THEN <<"Campaign ID is required for campaign level keywords">> ELSE <<>>)
  \o (IF keyword.level = "SHARED_LIST" /\ Falsy(keyword.sharedListId)
     THEN <<"Shared List ID is required for shared list keywords">> ELSE <<>>)

\* validateKeyword: the error list, empty for an admissible keyword
validateKeyword(keyword) ==
  (IF keyword.text = <<>> \/ Len(Trim(keyword.text)) = 0
     THEN <<"Keyword text is required">> ELSE <<>>)
  \o (IF keyword.text # <<>> /\ Len(keyword.text) > MaxKeywordLength
     THEN <<"Keyword text must be 80 characters or less">> ELSE <<>>)
  \o (IF keyword.matchType \notin MatchTypes
     THEN <<"Invalid match type. Must be EXACT, PHRASE, or BROAD">> ELSE <<>>)
  \o (IF keyword.level \notin Levels
     THEN <<"Invalid level. Must be CAMPAIGN, AD_GROUP, or SHARED_LIST">>
     ELSE <<>>)
  \o (IF keyword.level = "CAMPAIGN" /\ Falsy(keyword.campaignId)
     THEN <<"Campaign ID is required for campaign level keywords">> ELSE <<>>)
  \o (IF keyword.level = "AD_GROUP"
         /\ (Falsy(keyword.campaignId) \/ Falsy(keyword.adGroupId))
     THEN <<"Campaign ID and Ad Group ID are required for ad group level keywords">>
     ELSE <<>>)
  \o (IF keyword.level = "SHARED_LIST" /\ Falsy(keyword.sharedListId)
     THEN <<"Shared List ID is required for shared list keywords">> ELSE <<>>)

----------------------------------------------------------------------------
(* The NegativeKeywords sheet *)

NoId == <<>>
NewId(n) == <<"new_", n>>

\* id.toString().startsWith('new_')
StartsWithNew(id) == id # NoId /\ id[1] = "new_"

BlankRow ==
  [id |-> NoId, keywordText |-> <<>>, matchType |-> "", level |-> "",
   campaignId |-> "", campaignName |-> "", adGroupId |-> "",
   adGroupName |-> "", sharedListId |-> "", sharedListName |-> "",
   addedDate |-> 0, status |-> "", message |-> <<>>, processedDate |-> 0]

\* a sheet ends at its last row with content
RECURSIVE DropTrailingBlank(_)
DropTrailingBlank(sheet) ==
  IF sheet = <<>> THEN <<>>
  ELSE IF sheet[Len(sheet)] = BlankRow
       THEN DropTrailingBlank(SubSeq(sheet, 1, Len(sheet) - 1))
       ELSE sheet

\* as getLastRow, but counting the data rows only
getLastRowWithoutHeader(sheet) == Len(sheet)

\* sheet.getLastRow(): the header is row 1
getLastRow(sheet) == Len(sheet) + 1

\* sheet.getRange(rowIndex, 1, Len(rows), 14).setValues(rows)
setValues(sheet, rowIndex, rows) ==
  DropTrailingBlank(
    [i \in 1..(IF rowIndex - 2 + Len(rows) > Len(sheet)
               THEN rowIndex - 2 + Len(rows) ELSE Len(sheet)) |->
       IF i >= rowIndex - 1 /\ i <= rowIndex - 2 + Len(rows)
       THEN rows[i - rowIndex + 2]
       ELSE IF i <= Len(sheet) THEN sheet[i] ELSE BlankRow])

\* sheet.deleteRow(rowIndex): the rows below move up
deleteRow(sheet, rowIndex) ==
  DropTrailingBlank(
    [i \in 1..(IF rowIndex - 1 \in 1..Len(sheet) THEN Len(sheet) - 1 ELSE Len(sheet)) |->
       IF i < rowIndex - 1 THEN sheet[i] ELSE
       IF rowIndex - 1 \in 1..Len(sheet) THEN sheet[i + 1] ELSE sheet[i]])

\* sheet.getRange(rowIndex, column).setValue(value), the column given by name
setValue(sheet, rowIndex, column, value) ==
  DropTrailingBlank(
    [i \in 1..(IF rowIndex - 1 > Len(sheet) THEN rowIndex - 1 ELSE Len(sheet)) |->
       IF i = rowIndex - 1
       THEN [IF i <= Len(sheet) THEN sheet[i] ELSE BlankRow EXCEPT ![column] = value]
       ELSE IF i <= Len(sheet) THEN sheet[i] ELSE BlankRow])

\* updateKeywordStatus: setValue on the cells of columns 12 (Status),
\* 13 (Message) and 14 (Processed Date) of sheet row rowIndex
updateKeywordStatus(sheet, rowIndex, status, message, date) ==
  DropTrailingBlank(
    [i \in 1..(IF rowIndex - 1 > Len(sheet) THEN rowIndex - 1 ELSE Len(sheet)) |->
       IF i = rowIndex - 1
       THEN [IF i <= Len(sheet) THEN sheet[i] ELSE BlankRow
               EXCEPT !.status = status, !.message = message,
                      !.processedDate = date]
       ELSE IF i <= Len(sheet) THEN sheet[i] ELSE BlankRow])

----------------------------------------------------------------------------
(* Submission path: handleAddNegativeKeywords and addNegativeKeywords *)

WaitingMessage == <<"Waiting for processing">>

\* the row addNegativeKeywords builds for one keyword
newRow(id, keyword, date) ==
  [id |-> id, keywordText |-> keyword.text, matchType |-> keyword.matchType,
   level |-> keyword.level, campaignId |-> keyword.campaignId,
   campaignName |-> keyword.campaignName, adGroupId |-> keyword.adGroupId,
   adGroupName |-> keyword.adGroupName, sharedListId |-> keyword.sharedListId,
   sharedListName |-> keyword.sharedListName, addedDate |-> date,
   status |-> "PENDING", message |-> WaitingMessage, processedDate |-> 0]

\* as newRows, but the id is made of the time alone: one id for the batch
newRowsTimeOnly(keywords, firstId, date) ==
  [i \in 1..Len(keywords) |-> newRow(NewId(firstId), keywords[i], date)]

\* the rows addNegativeKeywords builds for a batch, ids taken from firstId on
newRows(keywords, firstId, date) ==
  [i \in 1..Len(keywords) |-> newRow(NewId(firstId + i - 1), keywords[i], date)]

\* validationErrors of handleAddNegativeKeywords: the positions of the
\* keywords validateKeyword reports errors for
validationErrors(keywords) ==
  {i \in 1..Len(keywords) : validateKeyword(keywords[i]) # <<>>}

\* triggerSheet.appendRow(['PROCESS_NEGATIVE_KEYWORDS', timestamp, 'PENDING', '', ''])
\* after getOrCreateTriggerSheet()
appendTrigger(sheet, date) ==
  [exists |-> TRUE,
   rows |-> Append(sheet.rows,
                   [action |-> "PROCESS_NEGATIVE_KEYWORDS", timestamp |-> date,
                    status |-> "PENDING", message |-> <<>>, processedDate |-> 0])]

\* createResponse and createErrorResponse bodies; invalid holds the keyword
\* positions the 'Validation errors' text lists
NoResponse ==
  [success |-> FALSE, error |-> "none", added |-> 0, failed |-> 0, invalid |-> {}]
ErrorResponse(text, invalid) ==
  [success |-> FALSE, error |-> text, added |-> 0, failed |-> 0, invalid |-> invalid]
AddedResponse(n) ==
  [success |-> TRUE, error |-> "", added |-> n, failed |-> 0, invalid |-> {}]

\* no processing-status call has been answered yet
NoStatus == [status |-> "", lastProcessed |-> 0, pendingRequests |-> 0]

----------------------------------------------------------------------------
(* Inputs *)

Request(text, matchType, level, campaignId, adGroupId, sharedListId) ==
  [text |-> text, matchType |-> matchType, level |-> level,
   campaignId |-> campaignId,
   campaignName |-> IF campaignId = "" THEN "" ELSE "Brand",
   adGroupId |-> adGroupId,
   adGroupName |-> IF adGroupId = "" THEN "" ELSE "Shoes",
   sharedListId |-> sharedListId,
   sharedListName |-> IF sharedListId = "" THEN "" ELSE "Global"]

ReqCampaign == Request(<<"f","r","e","e">>, "BROAD", "CAMPAIGN", "123", "", "")
ReqAdGroup == Request(<<"s","h","o","e","s">>, "EXACT", "AD_GROUP", "123", "45", "")
ReqSharedList == Request(<<"b","u","y">>, "PHRASE", "SHARED_LIST", "", "", "9")
ReqBadChar == Request(<<"a","$">>, "EXACT", "CAMPAIGN", "123", "", "")
ReqNoAdGroup == Request(<<"s","h","o","e","s">>, "EXACT", "AD_GROUP", "", "", "")

\* the requests submitted to the submission path
Requests == {ReqCampaign, ReqAdGroup, ReqBadChar, ReqNoAdGroup}

\* the batches a submission may carry
Batches == UNION {[1..n -> Requests] : n \in 0..MaxBatch}

\* what the external account answers to one resolve-and-add
Outcomes ==
  {[kind |-> "added", name |-> "Brand", errors |-> <<>>],
   [kind |-> "notfound", name |-> "", errors |-> <<>>],
   [kind |-> "rejected", name |-> "", errors |-> <<"Keyword already exists">>],
   [kind |-> "throw", name |-> "", errors |-> <<"Exception: service unavailable">>]}

----------------------------------------------------------------------------
(* Initial state *)

IdleSession == [pc |-> "idle", lastRow |-> 0, rows |-> <<>>, date |-> 0]
NotValidated == <<"(validateKeyword not called)">>
NotScored == <<[called |-> FALSE]>>
NotRecommended == "(recommendMatchType not called)"
NotLevelled == "(recommendLevel not called)"
NoRow == [searchTerm |-> <<>>, campaignName |-> <<>>, adGroupName |-> <<>>]
NoMetrics == [called |-> FALSE]
NoTwin == [compared |-> FALSE]

Init ==
  /\ ledger = <<>>
  /\ triggers = [exists |-> FALSE, rows |-> <<>>]
  /\ now = 1
  /\ nextId = 1
  /\ sub = [s \in 1..NumSessions |-> IdleSession]
  /\ wpc = "idle"
  /\ pending = <<>>
  /\ cur = 0
  /\ result = [success |-> FALSE, text |-> <<>>]
  /\ successCount = 0
  /\ failureCount = 0
  /\ allThrew = TRUE
  /\ lastReq = <<>>
  /\ lastResp = NoResponse
  /\ lastRead = <<>>
  /\ lastStatus = NoStatus
  /\ vIn = ReqCampaign
  /\ vOut = NotValidated
  /\ sIn = <<>>
  /\ sOut = NotScored
  /\ tIn = <<>>
  /\ tOut = NotRecommended
  /\ lIn = NoRow
  /\ lOut = NotLevelled
  /\ dOut = NoMetrics
  /\ cOut = NoMetrics
  /\ addCalls = <<>>
  /\ refresh = <<>>
  /\ twin = NoTwin

workerVars == <<wpc, pending, cur, result, successCount, failureCount, allThrew>>
validatorVars == <<vIn, vOut>>
analysisVars == <<sIn, sOut, tIn, tOut, lIn, lOut, dOut, cOut>>
historyVars == <<addCalls, refresh, twin>>

\* as HandleAddNegativeKeywords, but the request waits for the Worker to be idle
HandleAddNegativeKeywordsWhenIdle(keywords) ==
  /\ wpc = "idle"
  /\ lastReq' = keywords
  /\ IF Len(keywords) = 0
     THEN /\ lastResp' = ErrorResponse("Invalid keywords data", {})
          /\ UNCHANGED <<ledger, triggers, nextId>>
     ELSE IF validationErrors(keywords) # {}
     THEN /\ lastResp' = ErrorResponse("Validation errors: ", validationErrors(keywords))
          /\ UNCHANGED <<ledger, triggers, nextId>>
     ELSE /\ ledger' = setValues(ledger, getLastRow(ledger) + 1,
                                 newRows(keywords, nextId, now))
          /\ nextId' = nextId + Len(keywords)
          /\ triggers' = appendTrigger(triggers, now)
          /\ lastResp' = AddedResponse(Len(keywords))
  /\ UNCHANGED <<now, sub, workerVars, lastRead, lastStatus, validatorVars, analysisVars, historyVars>>

\* doPost, action add-negative-keywords, run without interruption
HandleAddNegativeKeywords(keywords) ==
  /\ lastReq' = keywords
  /\ IF Len(keywords) = 0
     THEN /\ lastResp' = ErrorResponse("Invalid keywords data", {})
          /\ UNCHANGED <<ledger, triggers, nextId>>
     ELSE IF validationErrors(keywords) # {}
     THEN /\ lastResp' = ErrorResponse("Validation errors: ", validationErrors(keywords))
          /\ UNCHANGED <<ledger, triggers, nextId>>
     ELSE /\ ledger' = setValues(ledger, getLastRow(ledger) + 1,
                                 newRows(keywords, nextId, now))
          /\ nextId' = nextId + Len(keywords)
          /\ triggers' = appendTrigger(triggers, now)
          /\ lastResp' = AddedResponse(Len(keywords))
  /\ UNCHANGED <<now, sub, workerVars, lastRead, lastStatus, validatorVars, analysisVars, historyVars>>

\* as findRow, but the index into the data rows is taken for the sheet row
findRowDataIndex(sheet, keywordId) ==
  IF \E i \in 1..Len(sheet) : sheet[i].id = keywordId
  THEN CHOOSE i \in 1..Len(sheet) :
         /\ sheet[i].id = keywordId
         /\ \A j \in 1..(i - 1) : sheet[j].id # keywordId
  ELSE 0

\* removeNegativeKeyword: the sheet row of the first row with this id, 0 if none
findRow(sheet, keywordId) ==
  IF \E i \in 1..Len(sheet) : sheet[i].id = keywordId
  THEN 1 + CHOOSE i \in 1..Len(sheet) :
              /\ sheet[i].id = keywordId
              /\ \A j \in 1..(i - 1) : sheet[j].id # keywordId
  ELSE 0

\* removeNegativeKeyword: the sheet it leaves
removeNegativeKeyword(sheet, keywordId) ==
  IF findRow(sheet, keywordId) = 0 THEN sheet
  ELSE deleteRow(sheet, findRow(sheet, keywordId))

\* removeNegativeKeyword: the value it returns, the success of the response
removeNegativeKeywordReturns(sheet, keywordId) == findRow(sheet, keywordId) # 0

\* doPost, action remove-negative-keyword
HandleRemoveNegativeKeyword(keywordId) ==
  /\ ledger' = removeNegativeKeyword(ledger, keywordId)
  /\ UNCHANGED <<triggers, now, nextId, sub, workerVars, lastReq, lastResp, lastRead, lastStatus, validatorVars, analysisVars, historyVars>>

----------------------------------------------------------------------------
(* Provisioning Worker: the Google Ads script *)

\* the entry getPendingKeywords pushes for data row index (0-based index + 2)
pendingEntry(sheet, i) ==
  [rowIndex |-> i + 1, id |-> sheet[i].id, keywordText |-> sheet[i].keywordText,
   matchType |-> sheet[i].matchType, level |-> sheet[i].level,
   campaignId |-> sheet[i].campaignId, adGroupId |-> sheet[i].adGroupId,
   sharedListId |-> sheet[i].sharedListId, addedDate |-> sheet[i].addedDate]

\* as isPending, but only a blank status cell counts as pending
isPendingBlankOnly(row) ==
  /\ row.status = ""
  /\ StartsWithNew(row.id)

\* the test of getPendingKeywords on one row
isPending(row) ==
  /\ row.status = "" \/ row.status = "PENDING"
  /\ StartsWithNew(row.id)

RECURSIVE pendingFrom(_, _)
pendingFrom(sheet, i) ==
  IF i > Len(sheet) THEN <<>>
  ELSE (IF isPending(sheet[i]) THEN <<pendingEntry(sheet, i)>> ELSE <<>>)
       \o pendingFrom(sheet, i + 1)

\* as getPendingKeywords, but the newest pending row comes first
getPendingKeywordsNewestFirst(sheet) ==
  IF getLastRow(sheet) <= 1 THEN <<>>
  ELSE [k \in 1..Len(pendingFrom(sheet, 1)) |->
          pendingFrom(sheet, 1)[Len(pendingFrom(sheet, 1)) + 1 - k]]

\* as getPendingKeywords, but the loop over the data starts one row late
getPendingKeywordsFromSecond(sheet) ==
  IF getLastRow(sheet) <= 1 THEN <<>> ELSE pendingFrom(sheet, 2)

getPendingKeywords(sheet) ==
  IF getLastRow(sheet) <= 1 THEN <<>> ELSE pendingFrom(sheet, 1)

Success(text) == [success |-> TRUE, text |-> text]
Failure(text) == [success |-> FALSE, text |-> text]
NoResult == [success |-> FALSE, text |-> <<>>]

\* addCampaignNegativeKeyword, addAdGroupNegativeKeyword and
\* addSharedListNegativeKeyword: target is the id the level resolves by,
\* what names the level in the messages
\* as addToTarget, but a rejected add is reported in the handler's own words
addToTargetOwnWords(target, idName, notFound, added, unknown, prefix, outcome) ==
  IF Falsy(target) THEN Failure(<<idName>>)
  ELSE IF outcome.kind = "throw" THEN Failure(<<prefix>> \o outcome.errors)
  ELSE IF outcome.kind = "notfound" THEN Failure(<<notFound, target>>)
  ELSE IF outcome.kind = "added" THEN Success(<<added, outcome.name>>)
  ELSE Failure(<<unknown>>)

\* as addToTarget, but the success message does not name the target
addToTargetUnnamed(target, idName, notFound, added, unknown, prefix, outcome) ==
  IF Falsy(target) THEN Failure(<<idName>>)
  ELSE IF outcome.kind = "throw" THEN Failure(<<prefix>> \o outcome.errors)
  ELSE IF outcome.kind = "notfound" THEN Failure(<<notFound, target>>)
  ELSE IF outcome.kind = "added" THEN Success(<<added>>)
  ELSE IF Len(outcome.errors) > 0 THEN Failure(<<outcome.errors[1]>>)
  ELSE Failure(<<unknown>>)

addToTarget(target, idName, notFound, added, unknown, prefix, outcome) ==
  IF Falsy(target) THEN Failure(<<idName>>)
  ELSE IF outcome.kind = "throw" THEN Failure(<<prefix>> \o outcome.errors)
  ELSE IF outcome.kind = "notfound" THEN Failure(<<notFound, target>>)
  ELSE IF outcome.kind = "added" THEN Success(<<added, outcome.name>>)
  ELSE IF Len(outcome.errors) > 0 THEN Failure(<<outcome.errors[1]>>)
  ELSE Failure(<<unknown>>)

\* as addNegativeKeywordToGoogleAds, but any other level is handled as CAMPAIGN
addNegativeKeywordToGoogleAdsDefaultCampaign(keyword, outcome) ==
  IF keyword.level = "AD_GROUP"
  THEN addToTarget(keyword.adGroupId, "Ad Group ID is required",
                   "Ad group not found: ", "Added to ad group ",
                   "Unknown error adding ad group negative keyword",
                   "Ad group error: ", outcome)
  ELSE IF keyword.level = "SHARED_LIST"
  THEN addToTarget(keyword.sharedListId, "Shared List ID is required",
                   "Shared list not found: ", "Added to shared list ",
                   "Unknown error adding shared list negative keyword",
                   "Shared list error: ", outcome)
  ELSE addToTarget(keyword.campaignId, "Campaign ID is required",
                   "Campaign not found: ", "Added to campaign ",
                   "Unknown error adding campaign negative keyword",
                   "Campaign error: ", outcome)

addNegativeKeywordToGoogleAds(keyword, outcome) ==
  IF keyword.level = "CAMPAIGN"
  THEN addToTarget(keyword.campaignId, "Campaign ID is required",
                   "Campaign not found: ", "Added to campaign ",
                   "Unknown error adding campaign negative keyword",
                   "Campaign error: ", outcome)
  ELSE IF keyword.level = "AD_GROUP"
  THEN addToTarget(keyword.adGroupId, "Ad Group ID is required",
                   "Ad group not found: ", "Added to ad group ",
                   "Unknown error adding ad group negative keyword",
                   "Ad group error: ", outcome)
  ELSE IF keyword.level = "SHARED_LIST"
  THEN addToTarget(keyword.sharedListId, "Shared List ID is required",
                   "Shared list not found: ", "Added to shared list ",
                   "Unknown error adding shared list negative keyword",
                   "Shared list error: ", outcome)
  ELSE Failure(<<"Invalid keyword level: ", keyword.level>>)

\* the external account is called for this keyword
callsAccount(keyword) ==
  \/ keyword.level = "CAMPAIGN" /\ ~Falsy(keyword.campaignId)
  \/ keyword.level = "AD_GROUP" /\ ~Falsy(keyword.adGroupId)
  \/ keyword.level = "SHARED_LIST" /\ ~Falsy(keyword.sharedListId)

\* updateProcessingTriggerStatus: the most recent PENDING trigger is completed
lastPendingTrigger(rows) ==
  IF \E i \in 1..Len(rows) : rows[i].status = "PENDING"
  THEN CHOOSE i \in 1..Len(rows) :
         /\ rows[i].status = "PENDING"
         /\ \A j \in (i + 1)..Len(rows) : rows[j].status # "PENDING"
  ELSE 0

updateProcessingTriggerStatus(sheet, succeeded, failed, date) ==
  IF ~sheet.exists \/ Len(sheet.rows) + 1 <= 1 \/ lastPendingTrigger(sheet.rows) = 0
  THEN sheet
  ELSE [sheet EXCEPT !.rows[lastPendingTrigger(sheet.rows)] =
          [@ EXCEPT !.status = "COMPLETED",
                    !.message = <<"Processed: ", succeeded, failed>>,
                    !.processedDate = date]]

\* main up to the pending scan of processPendingNegativeKeywords
ScanStep ==
  /\ wpc = "idle"
  /\ pending' = getPendingKeywords(ledger)
  /\ IF pending' = <<>>
     THEN UNCHANGED <<wpc, cur>>
     ELSE wpc' = "dispatch" /\ cur' = 1
  /\ successCount' = 0
  /\ failureCount' = 0
  /\ allThrew' = TRUE
  /\ result' = NoResult
  /\ UNCHANGED <<ledger, triggers, now, nextId, sub, lastReq, lastResp, lastRead, lastStatus, validatorVars, analysisVars>>

WorkerScan == ScanStep /\ UNCHANGED historyVars

\* addNegativeKeywordToGoogleAds(keyword) for the current keyword
DispatchStep(outcome) ==
  /\ wpc = "dispatch"
  /\ result' = addNegativeKeywordToGoogleAds(pending[cur], outcome)
  /\ allThrew' = (allThrew /\ (callsAccount(pending[cur]) => outcome.kind = "throw"))
  /\ IF result'.success
     THEN successCount' = successCount + 1 /\ UNCHANGED failureCount
     ELSE failureCount' = failureCount + 1 /\ UNCHANGED successCount
  /\ wpc' = "update"
  /\ UNCHANGED <<ledger, triggers, now, nextId, sub, pending, cur, lastReq, lastResp, lastRead, lastStatus, validatorVars, analysisVars>>

WorkerDispatch(outcome) == DispatchStep(outcome) /\ UNCHANGED historyVars

\* as WorkerUpdateKeywordStatus, but a failed keyword ends the forEach
WorkerUpdateKeywordStatusAborting ==
  /\ wpc = "update"
  /\ ledger' = updateKeywordStatus(ledger, pending[cur].rowIndex,
                                   IF result.success THEN "ACTIVE" ELSE "FAILED",
                                   result.text, now)
  /\ IF cur < Len(pending) /\ result.success
     THEN cur' = cur + 1 /\ wpc' = "dispatch"
     ELSE cur' = cur /\ wpc' = "summary"
  /\ result' = NoResult
  /\ UNCHANGED <<triggers, now, nextId, sub, pending, successCount,
                 failureCount, allThrew, lastReq, lastResp, lastRead, lastStatus, validatorVars, analysisVars, historyVars>>

\* updateKeywordStatus(sheet, keyword.rowIndex, status, message), then the
\* forEach moves to the next keyword
WorkerUpdateKeywordStatus ==
  /\ wpc = "update"
  /\ ledger' = updateKeywordStatus(ledger, pending[cur].rowIndex,
                                   IF result.success THEN "ACTIVE" ELSE "FAILED",
                                   result.text, now)
  /\ IF cur < Len(pending)
     THEN cur' = cur + 1 /\ wpc' = "dispatch"
     ELSE cur' = cur /\ wpc' = "summary"
  /\ result' = NoResult
  /\ UNCHANGED <<triggers, now, nextId, sub, pending, successCount,
                 failureCount, allThrew, lastReq, lastResp, lastRead, lastStatus, validatorVars, analysisVars, historyVars>>

\* updateProcessingTriggerStatus(successCount, failureCount) and the return
SummaryStep ==
  /\ wpc = "summary"
  /\ triggers' = updateProcessingTriggerStatus(triggers, successCount, failureCount, now)
  /\ wpc' = "idle"
  /\ pending' = <<>>
  /\ cur' = 0
  /\ successCount' = 0
  /\ failureCount' = 0
  /\ allThrew' = TRUE
  /\ UNCHANGED <<ledger, now, nextId, sub, result, lastReq, lastResp, lastRead, lastStatus, validatorVars, analysisVars>>

WorkerSummary == SummaryStep /\ UNCHANGED historyVars

Worker ==
  \/ WorkerScan
  \/ \E outcome \in Outcomes : WorkerDispatch(outcome)
  \/ WorkerUpdateKeywordStatus
  \/ WorkerSummary

\* the submissions the pipeline is run with: admissible requests
WorkRequests == {ReqCampaign}
WorkBatches == UNION {[1..n -> WorkRequests] : n \in 1..MaxBatch}

\* the id counter is capped: at most maxIds requests are ever submitted
Submit(batches, maxIds) ==
  \E keywords \in batches :
     /\ validationErrors(keywords) = {} => nextId + Len(keywords) - 1 <= maxIds
     /\ HandleAddNegativeKeywords(keywords)

Next ==
  \/ Submit(WorkBatches, MaxIds)
  \/ \E n \in 1..MaxIds : HandleRemoveNegativeKeyword(NewId(n))
  \/ Worker

Spec == Init /\ [][Next]_vars

(* The same with fair scheduling: the Google Ads script is started on its
   schedule again and again, and a started run runs to its end *)

FairNext ==
  \/ Submit(WorkBatches, MaxFairIds)
  \/ \E n \in 1..MaxFairIds : HandleRemoveNegativeKeyword(NewId(n))
  \/ Worker

FairSpec == Init /\ [][FairNext]_vars /\ WF_vars(Worker)

(* Runs studied one at a time: requests of every level are submitted at any
   moment, rows are removed between runs only *)

RunRequests == {ReqCampaign, ReqAdGroup, ReqSharedList}
RunBatches == UNION {[1..n -> RunRequests] : n \in 1..MaxBatch}

RunNext ==
  \/ Submit(RunBatches, MaxRunIds)
  \/ \E n \in 1..MaxRunIds : wpc = "idle" /\ HandleRemoveNegativeKeyword(NewId(n))
  \/ Worker

RunSpec == Init /\ [][RunNext]_vars

(* The submission path alone, on admissible and inadmissible requests *)

SubmitNext ==
  \/ Submit(Batches, MaxSubmitIds)
  \/ \E n \in 1..MaxSubmitIds : HandleRemoveNegativeKeyword(NewId(n))

SubmitSpec == Init /\ [][SubmitNext]_vars

(* Overlapping web-app executions of add-negative-keywords: the sheet is read
   (getLastRow) and written (setValues, appendRow) in separate steps *)

\* handleAddNegativeKeywords up to addNegativeKeywords building newRows
AddStart(s, keywords) ==
  /\ sub[s].pc = "idle"
  /\ lastReq' = keywords
  /\ IF Len(keywords) = 0
     THEN /\ lastResp' = ErrorResponse("Invalid keywords data", {})
          /\ UNCHANGED <<sub, nextId>>
     ELSE IF validationErrors(keywords) # {}
     THEN /\ lastResp' = ErrorResponse("Validation errors: ", validationErrors(keywords))
          /\ UNCHANGED <<sub, nextId>>
     ELSE /\ sub' = [sub EXCEPT ![s] =
                       [pc |-> "write", lastRow |-> getLastRow(ledger),
                        rows |-> newRows(keywords, nextId, now), date |-> now]]
          /\ nextId' = nextId + Len(keywords)
          /\ UNCHANGED lastResp
  /\ UNCHANGED <<ledger, triggers, now, workerVars, lastRead, lastStatus, validatorVars, analysisVars, historyVars>>

\* addNegativeKeywords: range.setValues(newRows) at lastRow + 1
AddWrite(s) ==
  /\ sub[s].pc = "write"
  /\ ledger' = setValues(ledger, sub[s].lastRow + 1, sub[s].rows)
  /\ sub' = [sub EXCEPT ![s].pc = "trigger"]
  /\ UNCHANGED <<triggers, now, nextId, workerVars, lastReq, lastResp, lastRead, lastStatus, validatorVars, analysisVars, historyVars>>

\* handleAddNegativeKeywords: the trigger row and the response
AddTrigger(s) ==
  /\ sub[s].pc = "trigger"
  /\ triggers' = appendTrigger(triggers, now)
  /\ lastResp' = AddedResponse(Len(sub[s].rows))
  /\ sub' = [sub EXCEPT ![s] = IdleSession]
  /\ UNCHANGED <<ledger, now, nextId, workerVars, lastReq, lastRead, lastStatus, validatorVars, analysisVars, historyVars>>

RaceNext ==
  \/ \E s \in 1..NumSessions : \E keywords \in RunBatches :
        /\ nextId + Len(keywords) - 1 <= MaxIds
        /\ AddStart(s, keywords)
  \/ \E s \in 1..NumSessions : AddWrite(s)
  \/ \E s \in 1..NumSessions : AddTrigger(s)

RaceSpec == Init /\ [][RaceNext]_vars

(* The validator alone, on requests of every shape *)

ValidatorTexts ==
  {<<>>, <<" ">>, <<"f","r","e","e">>, <<"a"," ","b">>, <<"a","$">>,
   Repeat("a", MaxKeywordLength)}
  \cup {Repeat("a", MaxKeywordLength + k) : k \in 1..MaxPad}

ValidatorInputs ==
  {Request(text, matchType, level, campaignId, adGroupId, sharedListId) :
     text \in ValidatorTexts, matchType \in MatchTypes \cup {"", "NEGATIVE"},
     level \in Levels \cup {"", "ACCOUNT"}, campaignId \in {"", "123"},
     adGroupId \in {"", "45"}, sharedListId \in {"", "9"}}

ValidateInit ==
  /\ ledger = <<>>
  /\ triggers = [exists |-> FALSE, rows |-> <<>>]
  /\ now = 1
  /\ nextId = 1
  /\ sub = [s \in 1..NumSessions |-> IdleSession]
  /\ wpc = "idle"
  /\ pending = <<>>
  /\ cur = 0
  /\ result = [success |-> FALSE, text |-> <<>>]
  /\ successCount = 0
  /\ failureCount = 0
  /\ allThrew = TRUE
  /\ lastReq = <<>>
  /\ lastResp = NoResponse
  /\ lastRead = <<>>
  /\ lastStatus = NoStatus
  /\ vIn \in ValidatorInputs
  /\ vOut = NotValidated
  /\ sIn = <<>>
  /\ sOut = NotScored
  /\ tIn = <<>>
  /\ tOut = NotRecommended
  /\ lIn = NoRow
  /\ lOut = NotLevelled
  /\ dOut = NoMetrics
  /\ cOut = NoMetrics
  /\ addCalls = <<>>
  /\ refresh = <<>>
  /\ twin = NoTwin

\* errors = validateKeyword(keyword)
Validate ==
  /\ vOut = NotValidated
  /\ vOut' = validateKeyword(vIn)
  /\ UNCHANGED <<ledger, triggers, now, nextId, sub, workerVars, lastReq, lastResp, lastRead, lastStatus, vIn, analysisVars, historyVars>>

ValidateSpec == ValidateInit /\ [][Validate]_vars

----------------------------------------------------------------------------
(* The Worker with updateKeywordStatus as the three setValue calls it makes,
   the read and the trigger request of the web app *)

\* updateKeywordStatus: sheet.getRange(rowIndex, 12).setValue(status)
WorkerSetStatus ==
  /\ wpc = "update"
  /\ ledger' = setValue(ledger, pending[cur].rowIndex, "status",
                        IF result.success THEN "ACTIVE" ELSE "FAILED")
  /\ wpc' = "updateMessage"
  /\ UNCHANGED <<triggers, now, nextId, sub, pending, cur, result, successCount,
                 failureCount, allThrew, lastReq, lastResp, lastRead, lastStatus, validatorVars, analysisVars, historyVars>>

\* updateKeywordStatus: sheet.getRange(rowIndex, 13).setValue(message)
WorkerSetMessage ==
  /\ wpc = "updateMessage"
  /\ ledger' = setValue(ledger, pending[cur].rowIndex, "message", result.text)
  /\ wpc' = "updateDate"
  /\ UNCHANGED <<triggers, now, nextId, sub, pending, cur, result, successCount,
                 failureCount, allThrew, lastReq, lastResp, lastRead, lastStatus, validatorVars, analysisVars, historyVars>>

\* updateKeywordStatus: sheet.getRange(rowIndex, 14).setValue(new Date()), then
\* the forEach moves to the next keyword
WorkerSetProcessedDate ==
  /\ wpc = "updateDate"
  /\ ledger' = setValue(ledger, pending[cur].rowIndex, "processedDate", now)
  /\ IF cur < Len(pending)
     THEN cur' = cur + 1 /\ wpc' = "dispatch"
     ELSE cur' = cur /\ wpc' = "summary"
  /\ result' = NoResult
  /\ UNCHANGED <<triggers, now, nextId, sub, pending, successCount,
                 failureCount, allThrew, lastReq, lastResp, lastRead, lastStatus, validatorVars, analysisVars, historyVars>>

CellWorker ==
  \/ WorkerScan
  \/ \E outcome \in Outcomes : WorkerDispatch(outcome)
  \/ WorkerSetStatus
  \/ WorkerSetMessage
  \/ WorkerSetProcessedDate
  \/ WorkerSummary

\* getNegativeKeywordData: the rows as the web app returns them
getNegativeKeywordData(sheet) ==
  IF getLastRow(sheet) <= 1 THEN <<>>
  ELSE [i \in 1..Len(sheet) |->
          [sheet[i] EXCEPT !.status = IF @ = "" THEN "PENDING" ELSE @]]

\* handleGetNegativeKeywords: data.filter(item => item.level === level)
filterLevel(data, level) == SelectSeq(data, LAMBDA item : item.level = level)

\* as HandleGetNegativeKeywords, but the rows read are taken off the sheet
HandleGetNegativeKeywordsConsuming ==
  /\ lastRead' = getNegativeKeywordData(ledger)
  /\ ledger' = <<>>
  /\ UNCHANGED <<triggers, now, nextId, sub, workerVars, lastReq, lastResp,
                 lastStatus, validatorVars, analysisVars, historyVars>>

\* doGet, action get-negative-keywords
HandleGetNegativeKeywords ==
  /\ lastRead' = getNegativeKeywordData(ledger)
  /\ UNCHANGED <<ledger, triggers, now, nextId, sub, workerVars, lastReq, lastResp,
                 lastStatus, validatorVars, analysisVars, historyVars>>

\* as HandleProcessKeywords, but the request also queues the failed rows again
HandleProcessKeywordsRequeue ==
  /\ triggers' = appendTrigger(triggers, now)
  /\ ledger' = [i \in 1..Len(ledger) |->
                  IF ledger[i].status = "FAILED"
                  THEN [ledger[i] EXCEPT !.status = "PENDING"]
                  ELSE ledger[i]]
  /\ UNCHANGED <<now, nextId, sub, workerVars, lastReq, lastResp, lastRead,
                 lastStatus, validatorVars, analysisVars, historyVars>>

\* doPost, action process-keywords
HandleProcessKeywords ==
  /\ triggers' = appendTrigger(triggers, now)
  /\ UNCHANGED <<ledger, now, nextId, sub, workerVars, lastReq, lastResp, lastRead,
                 lastStatus, validatorVars, analysisVars, historyVars>>

\* handleGetProcessingStatus: the latest processed date of the COMPLETED rows,
\* 0 standing for null
lastProcessed(rows) ==
  IF \E i \in 1..Len(rows) : rows[i].status = "COMPLETED" /\ rows[i].processedDate # 0
  THEN CHOOSE d \in {rows[i].processedDate : i \in 1..Len(rows)} :
         /\ \E i \in 1..Len(rows) :
               rows[i].status = "COMPLETED" /\ rows[i].processedDate = d
         /\ \A i \in 1..Len(rows) :
               rows[i].status = "COMPLETED" => rows[i].processedDate <= d
  ELSE 0

\* handleGetProcessingStatus: the number of PENDING rows
pendingRequests(rows) == Cardinality({i \in 1..Len(rows) : rows[i].status = "PENDING"})

\* as handleGetProcessingStatus, but the status is told from the processed dates
handleGetProcessingStatusByDate(sheet) ==
  IF ~sheet.exists \/ Len(sheet.rows) + 1 <= 1
  THEN [status |-> "No processing history found", lastProcessed |-> 0,
        pendingRequests |-> 0]
  ELSE [status |-> IF lastProcessed(sheet.rows) = 0
                   THEN "Processing pending" ELSE "Up to date",
        lastProcessed |-> lastProcessed(sheet.rows),
        pendingRequests |-> pendingRequests(sheet.rows)]

\* the response of handleGetProcessingStatus
handleGetProcessingStatus(sheet) ==
  IF ~sheet.exists \/ Len(sheet.rows) + 1 <= 1
  THEN [status |-> "No processing history found", lastProcessed |-> 0,
        pendingRequests |-> 0]
  ELSE [status |-> IF pendingRequests(sheet.rows) > 0
                   THEN "Processing pending" ELSE "Up to date",
        lastProcessed |-> lastProcessed(sheet.rows),
        pendingRequests |-> pendingRequests(sheet.rows)]

\* doGet, action processing-status
HandleGetProcessingStatus ==
  /\ lastStatus' = handleGetProcessingStatus(triggers)
  /\ UNCHANGED <<ledger, triggers, now, nextId, sub, workerVars, lastReq, lastResp,
                 lastRead, validatorVars, analysisVars, historyVars>>

CellNext ==
  \/ Submit(WorkBatches, MaxCellIds)
  \/ HandleGetNegativeKeywords
  \/ CellWorker

CellSpec == Init /\ [][CellNext]_vars

(* Every operation of the web app next to the Worker, each run without
   interruption; rows are removed between runs only *)

\* the account adds the keyword or does not find its target: every status
\* the Worker writes
FrameOutcomes == {o \in Outcomes : o.kind \in {"added", "notfound"}}

FrameNext ==
  \/ Submit(WorkBatches, MaxFrameIds)
  \/ \E n \in 1..MaxFrameIds : wpc = "idle" /\ HandleRemoveNegativeKeyword(NewId(n))
  \/ HandleGetNegativeKeywords
  \/ Len(triggers.rows) < MaxTriggers /\ HandleProcessKeywords
  \/ WorkerScan
  \/ \E outcome \in FrameOutcomes : WorkerDispatch(outcome)
  \/ WorkerUpdateKeywordStatus
  \/ WorkerSummary

FrameSpec == Init /\ [][FrameNext]_vars

(* The processing-status read next to what writes the ProcessingTriggers
   sheet: submissions, trigger requests and the Worker *)

MaxStatusIds == 2

StatusNext ==
  \/ Submit(WorkBatches, MaxStatusIds)
  \/ Len(triggers.rows) < MaxTriggers /\ HandleProcessKeywords
  \/ HandleGetProcessingStatus
  \/ WorkerScan
  \/ \E outcome \in FrameOutcomes : WorkerDispatch(outcome)
  \/ WorkerUpdateKeywordStatus
  \/ WorkerSummary

StatusSpec == Init /\ [][StatusNext]_vars

----------------------------------------------------------------------------
(* The data collector: the Google Ads script that exports the account's
   negative keywords to the NegativeKeywords sheet *)

NegId(n) == <<"neg_", n>>
SharedId(n) == <<"shared_", n>>

\* what AdsApp.search yields for one campaign criterion: a row that reads
\* well, or one whose reading throws
SearchRows == {"row", "throws"}

\* processNegativeKeywordRow(row, rowId)
processNegativeKeywordRow(row, rowId, date) ==
  IF row = "row"
  THEN [id |-> NegId(rowId), keywordText |-> <<"f","r","e","e">>,
        matchType |-> "BROAD", level |-> "CAMPAIGN", campaignId |-> "123",
        campaignName |-> "Brand", adGroupId |-> "", adGroupName |-> "",
        sharedListId |-> "", sharedListName |-> "", addedDate |-> date,
        status |-> "ACTIVE", message |-> <<"Existing negative keyword">>,
        processedDate |-> date]
  ELSE [id |-> NegId(rowId), keywordText |-> <<"E","R","R","O","R">>,
        matchType |-> "ERROR", level |-> "ERROR", campaignId |-> "",
        campaignName |-> "", adGroupId |-> "", adGroupName |-> "",
        sharedListId |-> "", sharedListName |-> "", addedDate |-> date,
        status |-> "ERROR", message |-> <<"TypeError">>, processedDate |-> date]

\* collectNegativeKeywordData
collectNegativeKeywordData(rows, date) ==
  [i \in 1..Len(rows) |-> processNegativeKeywordRow(rows[i], i, date)]

\* collectSharedNegativeKeywordData, for count keywords of one shared list
collectSharedNegativeKeywordData(count, date) ==
  [i \in 1..count |->
     [id |-> SharedId(i), keywordText |-> <<"b","u","y">>, matchType |-> "PHRASE",
      level |-> "SHARED_LIST", campaignId |-> "", campaignName |-> "",
      adGroupId |-> "", adGroupName |-> "", sharedListId |-> "9",
      sharedListName |-> "Global", addedDate |-> date, status |-> "ACTIVE",
      message |-> <<"Existing shared negative keyword">>, processedDate |-> date]]

\* writeNegativeKeywordData: the rows below the header are cleared and the
\* collected rows written from row 2 on, unless nothing was collected
writeNegativeKeywordData(sheet, campaignData, sharedData) ==
  IF Len(campaignData \o sharedData) = 0 THEN sheet
  ELSE setValues(<<>>, 2, campaignData \o sharedData)

\* main of the data collector
CollectorRun(rows, count) ==
  /\ ledger' = writeNegativeKeywordData(ledger,
                   collectNegativeKeywordData(rows, now),
                   collectSharedNegativeKeywordData(count, now))
  /\ UNCHANGED <<triggers, now, nextId, sub, workerVars, lastReq, lastResp, lastRead,
                 lastStatus, validatorVars, analysisVars, historyVars>>

CollectNext ==
  \/ Submit(WorkBatches, MaxCollectIds)
  \/ \E n \in 1..MaxCollectIds : HandleRemoveNegativeKeyword(NewId(n))
  \/ Worker
  \/ \E n \in 0..MaxCollected : \E rows \in [1..n -> SearchRows] :
        \E count \in 0..MaxCollected : CollectorRun(rows, count)
  \/ wpc = "idle" /\ HandleGetNegativeKeywords

CollectSpec == Init /\ [][CollectNext]_vars

----------------------------------------------------------------------------
(* The Worker alone, on a sheet whose rows did not all come through the
   validator: the level cell holds any text *)

MaxBypassRows == 2

BypassRequests ==
  {ReqCampaign, ReqSharedList}
  \cup {Request(<<"f","r","e","e">>, "BROAD", level, "123", "", "") :
          level \in {"ACCOUNT", ""}}

BypassInit ==
  /\ \E n \in 1..MaxBypassRows : \E keywords \in [1..n -> BypassRequests] :
        ledger = newRows(keywords, 1, 1)
  /\ triggers = [exists |-> FALSE, rows |-> <<>>]
  /\ now = 1
  /\ nextId = Len(ledger) + 1
  /\ sub = [s \in 1..NumSessions |-> IdleSession]
  /\ wpc = "idle"
  /\ pending = <<>>
  /\ cur = 0
  /\ result = [success |-> FALSE, text |-> <<>>]
  /\ successCount = 0
  /\ failureCount = 0
  /\ allThrew = TRUE
  /\ lastReq = <<>>
  /\ lastResp = NoResponse
  /\ lastRead = <<>>
  /\ lastStatus = NoStatus
  /\ vIn = ReqCampaign
  /\ vOut = NotValidated
  /\ sIn = <<>>
  /\ sOut = NotScored
  /\ tIn = <<>>
  /\ tOut = NotRecommended
  /\ lIn = NoRow
  /\ lOut = NotLevelled
  /\ dOut = NoMetrics
  /\ cOut = NoMetrics
  /\ addCalls = <<>>
  /\ refresh = <<>>
  /\ twin = NoTwin

BypassSpec == BypassInit /\ [][Worker]_vars

----------------------------------------------------------------------------
(* Claims *)

Terminal == {"ACTIVE", "FAILED"}

\* the rows of a sheet that carry this id
RowsWithId(sheet, id) == {i \in 1..Len(sheet) : sheet[i].id = id}

\* C1: a Ledger row's status changes at most once, from PENDING to ACTIVE or
\* FAILED; a row that is ACTIVE or FAILED is not selected by a later scan and
\* its status, message and processedDate are never written again.
C1_StatusWrittenOnce ==
  [][/\ \A i \in 1..Len(ledger) : \A j \in RowsWithId(ledger', ledger[i].id) :
          /\ ledger[i].id # NoId /\ ledger[i].status \in Terminal
               => /\ ledger'[j].status = ledger[i].status
                  /\ ledger'[j].message = ledger[i].message
                  /\ ledger'[j].processedDate = ledger[i].processedDate
          /\ ledger[i].id # NoId /\ ledger[i].status = "PENDING"
               => ledger'[j].status \in {"PENDING"} \cup Terminal
     /\ WorkerScan =>
          \A k \in 1..Len(pending') :
             ledger[pending'[k].rowIndex - 1].status \notin Terminal]_vars

\* C2: after a run in which every call to the external account failed with a
\* transport or authentication error, every row that was PENDING before the
\* run is still PENDING with its addedDate, and the run marked no row FAILED.
C2_UnreachableLeavesPending ==
  (wpc = "summary" /\ allThrew /\ \A k \in 1..Len(pending) : callsAccount(pending[k]))
    => /\ failureCount = 0
       /\ \A k \in 1..Len(pending) : \A j \in RowsWithId(ledger, pending[k].id) :
             /\ ledger[j].status = "PENDING"
             /\ ledger[j].addedDate = pending[k].addedDate

\* the prefixes the level handlers put before the text of a caught exception
ErrorPrefixes == {"Campaign error: ", "Ad group error: ", "Shared list error: "}

\* C3: when processing one pending request throws, that request is marked
\* FAILED with the exception text, and every later request of the run's
\* snapshot is still dispatched and given its own outcome.
C3_ThrowIsolated ==
  [][/\ \A outcome \in Outcomes :
          WorkerDispatch(outcome) /\ outcome.kind = "throw" /\ callsAccount(pending[cur])
            => /\ ~result'.success
               /\ result'.text[1] \in ErrorPrefixes
               /\ SubSeq(result'.text, 2, Len(result'.text)) = outcome.errors
     /\ WorkerUpdateKeywordStatus
          => /\ RowsWithId(ledger', pending[cur].id) # {}
             /\ \A j \in RowsWithId(ledger', pending[cur].id) :
                   /\ ledger'[j].status = (IF result.success THEN "ACTIVE" ELSE "FAILED")
                   /\ ledger'[j].message = result.text
             /\ pending' = pending
             /\ cur < Len(pending) => wpc' = "dispatch" /\ cur' = cur + 1
             /\ cur = Len(pending) => wpc' = "summary"
     /\ WorkerSummary
          => \A k \in 1..Len(pending) :
                /\ RowsWithId(ledger, pending[k].id) # {}
                /\ \A j \in RowsWithId(ledger, pending[k].id) :
                      ledger[j].status \in Terminal]_vars

\* a run came to its end after its first request threw and its second was added
C3_Witness ==
  /\ wpc = "summary"
  /\ Len(pending) >= 2
  /\ \E j \in RowsWithId(ledger, pending[1].id) :
        /\ ledger[j].status = "FAILED"
        /\ ledger[j].message[1] \in ErrorPrefixes
        /\ ledger[j].message[2] = "Exception: service unavailable"
  /\ \E j \in RowsWithId(ledger, pending[2].id) : ledger[j].status = "ACTIVE"

\* C4: under fair, repeated Worker runs every request that is PENDING in the
\* Ledger is eventually ACTIVE or FAILED, unless it is removed.
C4_PendingEventuallyProcessed ==
  \A n \in 1..MaxFairIds :
     (\E i \in RowsWithId(ledger, NewId(n)) : ledger[i].status = "PENDING")
       ~> (\A i \in RowsWithId(ledger, NewId(n)) : ledger[i].status \in Terminal)

\* a run has failed one request and a later request has been processed
C4_Witness ==
  /\ wpc = "idle"
  /\ \E i, j \in 1..Len(ledger) :
        /\ i < j
        /\ ledger[i].id # NoId /\ ledger[i].status = "FAILED"
        /\ ledger[j].id # NoId /\ ledger[j].status \in Terminal

\* the request a Ledger row was built from
RequestOf(row) ==
  [text |-> row.keywordText, matchType |-> row.matchType, level |-> row.level,
   campaignId |-> row.campaignId, campaignName |-> row.campaignName,
   adGroupId |-> row.adGroupId, adGroupName |-> row.adGroupName,
   sharedListId |-> row.sharedListId, sharedListName |-> row.sharedListName]

\* the rows with an id
Admitted == {i \in 1..Len(ledger) : ledger[i].id # NoId}

\* rows old..., then one PENDING row per keyword, in order, with fresh ids
AppendedTo(old, new, keywords) ==
  /\ Len(new) = Len(old) + Len(keywords)
  /\ \A i \in 1..Len(old) : new[i] = old[i]
  /\ \A i \in 1..Len(keywords) :
        LET row == new[Len(old) + i]
        IN  /\ RequestOf(row) = keywords[i]
            /\ row.status = "PENDING"
            /\ row.message = <<"Waiting for processing">>
            /\ row.processedDate = 0
            /\ row.addedDate = now
            /\ StartsWithNew(row.id)
            /\ \A j \in 1..Len(new) : new[j].id = row.id => j = Len(old) + i

\* C5: append adds one new row per admitted request after all existing rows,
\* in batch order, each PENDING with message "Waiting for processing" and an
\* empty processedDate; the rows that existed are unchanged and keep their place.
C5_AppendOnly ==
  [][HandleAddNegativeKeywords(lastReq') /\ lastResp'.success
       => AppendedTo(ledger, ledger', lastReq')]_vars

\* a request was appended below the row of an earlier submission
C5_Witness ==
  /\ Len(ledger) = 2
  /\ ledger[1].id = NewId(1)
  /\ ledger[1].level = "CAMPAIGN"
  /\ ledger[2].id = NewId(2)
  /\ lastReq = <<ReqAdGroup>>
  /\ lastResp.added = 1
  /\ \A i \in 1..2 : ledger[i].status = "PENDING"

\* the rows some web-app execution has built and not yet written
Unwritten == UNION {{sub[s].rows[i].id : i \in 1..Len(sub[s].rows)} :
                      s \in {t \in 1..NumSessions : sub[t].pc = "write"}}

\* C6: when submissions overlap, every row written by either is in the Ledger
\* afterwards: no append overwrites a row of another.
C6_NoAppendLost ==
  \A n \in 1..(nextId - 1) :
     NewId(n) \notin Unwritten => RowsWithId(ledger, NewId(n)) # {}

\* the keywords of a batch that pass validation, in batch order
RECURSIVE ValidOnes(_)
ValidOnes(keywords) ==
  IF keywords = <<>> THEN <<>>
  ELSE (IF validateKeyword(Head(keywords)) = <<>> THEN <<Head(keywords)>> ELSE <<>>)
       \o ValidOnes(Tail(keywords))

\* C7: a batch is admitted per item: each valid request of the batch is
\* appended at PENDING and no invalid one is, whatever else the batch holds.
C7_PerItemAdmission ==
  [][HandleAddNegativeKeywords(lastReq')
       => AppendedTo(ledger, ledger', ValidOnes(lastReq'))]_vars

\* the level-required id field of a request is missing
MissingLevelId(keyword) ==
  \/ keyword.level = "CAMPAIGN" /\ keyword.campaignId = ""
  \/ keyword.level = "AD_GROUP" /\ (keyword.campaignId = "" \/ keyword.adGroupId = "")
  \/ keyword.level = "SHARED_LIST" /\ keyword.sharedListId = ""

\* the rules of the Request Validator other than the one on the text
OtherRules(keyword) ==
  /\ keyword.matchType \in {"EXACT", "PHRASE", "BROAD"}
  /\ keyword.level \in {"CAMPAIGN", "AD_GROUP", "SHARED_LIST"}
  /\ ~MissingLevelId(keyword)

\* the rule on the text: non-empty, at most 80 characters, allowed characters
TextRule(text) ==
  /\ Len(text) >= 1
  /\ Len(text) <= 80
  /\ AllowedCharacters(text)

\* C8 as claimed: validate returns errors for every request whose
\* level-required id is missing, and none for every request that satisfies
\* all validation rules.
C8_ValidateDecides ==
  vOut # NotValidated
    => /\ MissingLevelId(vIn) => vOut # <<>>
       /\ TextRule(vIn.text) /\ OtherRules(vIn) => vOut = <<>>

\* C8 as amended: the same, for the requests whose text is not made of
\* whitespace only.
C8_ValidateDecidesNonBlank ==
  vOut # NotValidated
    => /\ MissingLevelId(vIn) => vOut # <<>>
       /\ TextRule(vIn.text) /\ (\E i \in 1..Len(vIn.text) : vIn.text[i] \notin Whitespace)
          /\ OtherRules(vIn) => vOut = <<>>

\* an ad group request without ad group id got the ad group error, alone
C8_Witness ==
  /\ vIn.level = "AD_GROUP"
  /\ vIn.campaignId # ""
  /\ vIn.adGroupId = ""
  /\ vOut = <<"Campaign ID and Ad Group ID are required for ad group level keywords">>

\* C9: no request is admitted whose keywordText is empty, longer than 80
\* characters or has a character outside the allowed set.
C9_TextRuleEnforced ==
  \A i \in Admitted : TextRule(ledger[i].keywordText)

\* C10: every row the submission path wrote passed validation: its matchType
\* and level are known and the id fields its level requires are not empty.
C10_AdmittedRowsValid ==
  \A i \in Admitted :
     /\ OtherRules(RequestOf(ledger[i]))
     /\ validateKeyword(RequestOf(ledger[i])) = <<>>

\* requests of two levels are in the Ledger and the last batch was turned down
C10_Witness ==
  /\ lastResp.invalid # {}
  /\ \E i \in Admitted : ledger[i].level = "CAMPAIGN"
  /\ \E i \in Admitted : ledger[i].level = "AD_GROUP"

\* C11: in every Ledger state a reader observes, a row has a processedDate
\* if and only if its status is not PENDING.
C11_ProcessedDateIffProcessed ==
  \A i \in 1..Len(lastRead) :
     (lastRead[i].processedDate # 0) <=> (lastRead[i].status # "PENDING")

\* C12: in every Ledger state a reader observes, a row that is ACTIVE or
\* FAILED carries an outcome message: not empty and not the admission text.
C12_OutcomeMessageRecorded ==
  \A i \in 1..Len(lastRead) :
     lastRead[i].status \in Terminal
       => /\ lastRead[i].message # <<>>
          /\ lastRead[i].message # WaitingMessage

\* C13: whichever script last wrote the Ledger, the status of every row
\* (a sheet row with content) is PENDING, ACTIVE or FAILED.
C13_StatusDomain ==
  \A i \in 1..Len(ledger) :
     ledger[i] # BlankRow => ledger[i].status \in {"PENDING", "ACTIVE", "FAILED"}

\* the fields only the Worker writes
StatusFields(row) == <<row.status, row.message, row.processedDate>>

\* the ids of the snapshot the running Worker works from
SnapshotIds == {pending[k].id : k \in 1..Len(pending)}

\* C14: an append, a process-keywords request and a read leave status, message
\* and processedDate of every row of the Ledger as they were, and so does the
\* removal of a row for every row with another id.
C14_OnlyWorkerChangesStatus ==
  [][/\ (\/ HandleAddNegativeKeywords(lastReq')
         \/ HandleProcessKeywords
         \/ HandleGetNegativeKeywords)
        => \A i \in 1..Len(ledger) :
              /\ i <= Len(ledger')
              /\ ledger'[i].id = ledger[i].id
              /\ StatusFields(ledger'[i]) = StatusFields(ledger[i])
     /\ \A n \in 1..MaxFrameIds :
          HandleRemoveNegativeKeyword(NewId(n))
          => \A i \in 1..Len(ledger) :
                (ledger[i].id # NewId(n) /\ ledger[i] # BlankRow)
                => \E j \in 1..Len(ledger') :
                      /\ ledger'[j].id = ledger[i].id
                      /\ StatusFields(ledger'[j]) = StatusFields(ledger[i])]_vars

\* a processed row, a read that saw it processed, a row appended after that
\* read, and trigger requests
C14_Witness ==
  /\ Len(triggers.rows) = MaxTriggers
  /\ \E i, j \in 1..Len(ledger) :
        /\ i < j
        /\ ledger[i].status \in Terminal
        /\ ledger[j].status = "PENDING"
        /\ ledger[j].id # NoId
        /\ Len(lastRead) < j
        /\ i <= Len(lastRead)
        /\ lastRead[i] = ledger[i]

\* C15: a row of the Ledger leaves it only by the removal of its id: after
\* every other step (append, Worker step, data-collection run) a row with
\* the same id is still there.
C15_DeletedOnlyByRemove ==
  [][\A i \in 1..Len(ledger) :
       ledger[i].id # NoId
       => \/ RowsWithId(ledger', ledger[i].id) # {}
          \/ HandleRemoveNegativeKeyword(ledger[i].id)]_vars

\* a sheet without its k-th data row, the rows below moved up
Without(sheet, k) ==
  [i \in 1..(Len(sheet) - 1) |-> IF i < k THEN sheet[i] ELSE sheet[i + 1]]

\* C16: the removal of an id that one row carries returns true and leaves the
\* Ledger without that row, the other rows as they were and in their order,
\* whatever the status of the row; the removal of an id no row carries returns
\* false and leaves the Ledger as it was.
C16_RemoveExactlyOne ==
  /\ [](\A n \in 1..MaxFrameIds :
          RowsWithId(ledger, NewId(n)) = {}
          => /\ ~removeNegativeKeywordReturns(ledger, NewId(n))
             /\ removeNegativeKeyword(ledger, NewId(n)) = ledger)
  /\ [][\A n \in 1..MaxFrameIds :
          (HandleRemoveNegativeKeyword(NewId(n)) /\ RowsWithId(ledger, NewId(n)) # {})
          => /\ removeNegativeKeywordReturns(ledger, NewId(n))
             /\ \E k \in RowsWithId(ledger, NewId(n)) :
                   /\ RowsWithId(ledger, NewId(n)) = {k}
                   /\ ledger' = Without(ledger, k)]_vars

\* a read saw a processed first row and a second row; the first has been
\* removed since and the second is the whole Ledger
C16_Witness ==
  /\ Len(lastRead) = 2
  /\ lastRead[1].id = NewId(1)
  /\ lastRead[1].status \in Terminal
  /\ lastRead[2].id = NewId(2)
  /\ ledger = <<lastRead[2]>>

\* the data rows of a sheet whose status is PENDING
PendingRows(sheet) == {i \in 1..Len(sheet) : sheet[i].status = "PENDING"}

\* C17: the pending scan of a run returns the rows that are PENDING at that
\* moment and no other, each once, in the order of the Ledger.
C17_ScanExactlyPending ==
  [][WorkerScan
     => /\ Len(pending') = Cardinality(PendingRows(ledger))
        /\ \A k \in 1..Len(pending') :
              /\ pending'[k].rowIndex - 1 \in PendingRows(ledger)
              /\ pending'[k].id = ledger[pending'[k].rowIndex - 1].id
              /\ pending'[k].keywordText = ledger[pending'[k].rowIndex - 1].keywordText
        /\ \A k, l \in 1..Len(pending') :
              k < l => pending'[k].rowIndex < pending'[l].rowIndex]_vars

\* a scan has just returned the second row alone, the first being processed
C17_Witness ==
  /\ wpc = "dispatch"
  /\ cur = 1
  /\ Len(pending) = 1
  /\ pending[1].rowIndex = 3
  /\ Len(ledger) = 2
  /\ ledger[1].status \in Terminal
  /\ ledger[2].status = "PENDING"
  /\ ledger[2].id = pending[1].id

\* the Ledger row the k-th keyword of the snapshot was read from
SnapshotRow(k) == ledger[pending[k].rowIndex - 1]

\* C18: during a run the snapshot is in the order of the Ledger, every
\* keyword before the current one has its outcome written, and no keyword
\* after the current one has been dispatched or written: when a keyword is
\* dispatched the outcomes of all earlier ones are in the Ledger.
C18_RunInLedgerOrder ==
  wpc # "idle" =>
    /\ cur \in 1..Len(pending)
    /\ \A k, l \in 1..Len(pending) :
          k < l => pending[k].rowIndex < pending[l].rowIndex
    /\ \A k \in 1..Len(pending) :
          /\ pending[k].rowIndex - 1 \in 1..Len(ledger)
          /\ SnapshotRow(k).id = pending[k].id
          /\ k < cur => SnapshotRow(k).status \in Terminal
          /\ k > cur => SnapshotRow(k).status = "PENDING"
          /\ (k = cur /\ wpc \in {"dispatch", "update"})
                => SnapshotRow(k).status = "PENDING"
          /\ (k = cur /\ wpc = "summary") => SnapshotRow(k).status \in Terminal

\* the second keyword of a snapshot is about to be dispatched, the outcome of
\* the first is written
C18_Witness ==
  /\ wpc = "dispatch"
  /\ cur = 2
  /\ Len(pending) = 2
  /\ SnapshotRow(1).status \in Terminal
  /\ SnapshotRow(2).status = "PENDING"

\* C19: a request appended while a run is in progress is no part of the
\* run's snapshot: no write of the run touches its row, which is PENDING
\* still when the run ends, and the scan of the next run returns it.
C19_MidRunAppendLeftPending ==
  [][/\ WorkerUpdateKeywordStatus
        => \A i \in 1..Len(ledger) :
              (ledger[i].status = "PENDING" /\ StartsWithNew(ledger[i].id)
                 /\ ledger[i].id \notin SnapshotIds)
              => \E j \in 1..Len(ledger') : ledger'[j] = ledger[i]
     /\ WorkerScan
        => \A i \in PendingRows(ledger) :
              StartsWithNew(ledger[i].id)
              => \E k \in 1..Len(pending') : pending'[k].id = ledger[i].id]_vars

\* C20: in every state of the Worker a valid request can be submitted, and a
\* submission of valid requests, whenever it is made, is answered with
\* success and its rows are in the Ledger, PENDING.
C20_AdmittedInEveryWorkerState ==
  /\ [](\A keyword \in WorkRequests : ENABLED HandleAddNegativeKeywords(<<keyword>>))
  /\ [][(/\ HandleAddNegativeKeywords(lastReq')
         /\ Len(lastReq') > 0
         /\ validationErrors(lastReq') = {})
          => /\ lastResp' = AddedResponse(Len(lastReq'))
             /\ Len(ledger') = Len(ledger) + Len(lastReq')
             /\ \A k \in 1..Len(lastReq') :
                   /\ ledger'[Len(ledger) + k].status = "PENDING"
                   /\ RequestOf(ledger'[Len(ledger) + k]) = lastReq'[k]]_vars

\* a run is in progress and the last submission, made during it, was
\* answered with success: its row is PENDING and no part of the snapshot
C20_Witness ==
  /\ wpc \in {"dispatch", "update"}
  /\ lastResp = AddedResponse(Len(lastReq))
  /\ Len(lastReq) > 0
  /\ Len(ledger) >= 2
  /\ ledger[Len(ledger)].status = "PENDING"
  /\ ledger[Len(ledger)].id \notin SnapshotIds
  /\ StartsWithNew(ledger[Len(ledger)].id)

\* the names the account resolves targets to
TargetNames == {o.name : o \in {a \in Outcomes : a.kind = "added"}}

\* C21: when the account has resolved the target of the current request and
\* added the keyword, the write of the outcome leaves the request's row
\* ACTIVE, its message a text that contains the name of the target.
C21_SuccessMarksActive ==
  [][(WorkerUpdateKeywordStatus /\ result.success)
     => \A i \in RowsWithId(ledger, pending[cur].id) :
           ledger[i].status = "PENDING"
           => \E j \in RowsWithId(ledger', pending[cur].id) :
                 /\ ledger'[j].status = "ACTIVE"
                 /\ \E k \in 1..Len(ledger'[j].message) :
                       ledger'[j].message[k] \in TargetNames]_vars

\* a request of each of two levels is ACTIVE, its message naming the target
C21_Witness ==
  /\ wpc = "summary"
  /\ Len(ledger) = 2
  /\ ledger[1].level = "AD_GROUP"
  /\ ledger[1].status = "ACTIVE"
  /\ ledger[1].message = <<"Added to ad group ", "Brand">>
  /\ ledger[2].level = "SHARED_LIST"
  /\ ledger[2].status = "ACTIVE"
  /\ ledger[2].message = <<"Added to shared list ", "Brand">>

\* the id a request is resolved by in the account
TargetId(keyword) ==
  IF keyword.level = "CAMPAIGN" THEN keyword.campaignId
  ELSE IF keyword.level = "AD_GROUP" THEN keyword.adGroupId
  ELSE keyword.sharedListId

InvalidLevel(keyword) == <<"Invalid keyword level: ", keyword.level>>

\* C23: a pending row whose level is none of CAMPAIGN, AD_GROUP, SHARED_LIST
\* fails with the invalid-level message whatever the account would answer,
\* the account is not called for it, and the write of that outcome leaves the
\* row FAILED with the message.
C23_InvalidLevelFails ==
  [][/\ \A outcome \in Outcomes :
          (WorkerDispatch(outcome) /\ pending[cur].level \notin Levels)
          => /\ result' = Failure(InvalidLevel(pending[cur]))
             /\ ~callsAccount(pending[cur])
             /\ allThrew' = allThrew
             /\ failureCount' = failureCount + 1
     /\ (WorkerUpdateKeywordStatus /\ pending[cur].level \notin Levels)
          => /\ ledger'[pending[cur].rowIndex - 1].status = "FAILED"
             /\ ledger'[pending[cur].rowIndex - 1].message = InvalidLevel(pending[cur])
             /\ ledger'[pending[cur].rowIndex - 1].level = pending[cur].level]_vars

\* a run has marked a row of level ACCOUNT and a row without level
C23_Witness ==
  /\ wpc = "summary"
  /\ Len(ledger) = 2
  /\ ledger[1].level = "ACCOUNT"
  /\ ledger[1].status = "FAILED"
  /\ ledger[1].message = <<"Invalid keyword level: ", "ACCOUNT">>
  /\ ledger[2].level = ""
  /\ ledger[2].status = "FAILED"
  /\ ledger[2].message = <<"Invalid keyword level: ", "">>

\* the buckets of a read that hold an item with this id
BucketsOf(data, id) ==
  {level \in Levels :
     \E k \in 1..Len(filterLevel(data, level)) : filterLevel(data, level)[k].id = id}

\* C24: a read returns one item per row of the Ledger, with the row's status
\* (PENDING for a blank cell), message and processedDate, and every item is
\* in exactly one of the buckets campaign, adGroup and shared, the one of its
\* level, the items of a bucket in the order of the Ledger.
C24_ReadPartitions ==
  [][HandleGetNegativeKeywords
     => /\ Len(lastRead') = Len(ledger)
        /\ \A i \in 1..Len(ledger) :
              /\ lastRead'[i].id = ledger[i].id
              /\ lastRead'[i].status =
                    (IF ledger[i].status = "" THEN "PENDING" ELSE ledger[i].status)
              /\ lastRead'[i].message = ledger[i].message
              /\ lastRead'[i].processedDate = ledger[i].processedDate
              /\ BucketsOf(lastRead', ledger[i].id) = {ledger[i].level}
        /\ \A level \in Levels :
              \A k, l \in 1..Len(filterLevel(lastRead', level)) :
                 k < l => \E i, j \in 1..Len(ledger) :
                             /\ i < j
                             /\ ledger[i].id = filterLevel(lastRead', level)[k].id
                             /\ ledger[j].id = filterLevel(lastRead', level)[l].id]_vars

\* C25: a read changes nothing but what the caller receives, and a second
\* read made right after it returns the same data.
C25_ReadsIdempotent ==
  [][HandleGetNegativeKeywords
     => /\ UNCHANGED <<ledger, triggers, nextId, workerVars>>
        /\ getNegativeKeywordData(ledger') = lastRead']_vars

\* a read has returned a processed row and a pending row, and the Ledger is
\* as it was read
C25_Witness ==
  /\ Len(lastRead) = 2
  /\ lastRead[1].status \in Terminal
  /\ lastRead[2].status = "PENDING"
  /\ lastRead = getNegativeKeywordData(ledger)
  /\ lastRead = ledger

\* C26, as stated: a processing-status read returns "Up to date" or
\* "Processing pending" and a count of pending requests, "Processing pending"
\* exactly when the count is positive.
C26_StatusTwoValued ==
  [][HandleGetProcessingStatus
     => /\ lastStatus'.status \in {"Up to date", "Processing pending"}
        /\ lastStatus'.pendingRequests = pendingRequests(triggers.rows)
        /\ lastStatus'.status = "Processing pending"
              <=> lastStatus'.pendingRequests > 0]_vars

\* C26, amended: while the ProcessingTriggers sheet is missing or holds no
\* row the read returns "No processing history found" with a count of 0;
\* from the first trigger row on it returns "Up to date" or "Processing
\* pending" with the number of PENDING trigger rows, "Processing pending"
\* exactly when that number is positive.
C26_StatusThreeValued ==
  [][HandleGetProcessingStatus
     => /\ lastStatus'.status = "No processing history found"
              <=> (~triggers.exists \/ triggers.rows = <<>>)
        /\ lastStatus'.status
              \in {"No processing history found", "Up to date", "Processing pending"}
        /\ lastStatus'.pendingRequests = pendingRequests(triggers.rows)
        /\ lastStatus'.status = "Processing pending"
              <=> lastStatus'.pendingRequests > 0]_vars

\* a read has answered "Up to date": every trigger row is COMPLETED
C26_Witness ==
  /\ lastStatus.status = "Up to date"
  /\ lastStatus.lastProcessed # 0
  /\ lastStatus = handleGetProcessingStatus(triggers)
  /\ Len(triggers.rows) >= 1

\* the rows of a sheet that hold this request
RowsWithRequest(sheet, keyword) ==
  {i \in 1..Len(sheet) : RequestOf(sheet[i]) = keyword}

\* C27: no id is on two rows of the Ledger, and an admitted submission adds
\* one PENDING row per keyword also when the Ledger, or the submission
\* itself, holds the same request already.
C27_NoDedupUniqueIds ==
  /\ [](\A i, j \in 1..Len(ledger) :
          (i # j /\ ledger[i].id # NoId) => ledger[i].id # ledger[j].id)
  /\ [][(/\ HandleAddNegativeKeywords(lastReq')
         /\ Len(lastReq') > 0
         /\ validationErrors(lastReq') = {})
        => \A k \in 1..Len(lastReq') :
              /\ Cardinality(RowsWithRequest(ledger', lastReq'[k]))
                   = Cardinality(RowsWithRequest(ledger, lastReq'[k]))
                     + Cardinality({l \in 1..Len(lastReq') : lastReq'[l] = lastReq'[k]})
              /\ ledger'[Len(ledger) + k].status = "PENDING"
              /\ RowsWithId(ledger, ledger'[Len(ledger) + k].id) = {}]_vars

\* the same request was submitted when it was in the Ledger already, ACTIVE:
\* two rows, two ids
C27_Witness ==
  /\ Len(ledger) = 2
  /\ RequestOf(ledger[1]) = RequestOf(ledger[2])
  /\ ledger[1].status = "ACTIVE"
  /\ ledger[2].status = "PENDING"
  /\ ledger[1].id # ledger[2].id
  /\ lastResp = AddedResponse(1)

----------------------------------------------------------------------------
(* Opportunity Scorer *)

MaxScoreRows == 2  \* performance rows given to identifyOpportunities
MaxWords == 2      \* pieces, separated by one space, of a search term

UpperCase ==
  <<"A","B","C","D","E","F","G","H","I","J","K","L","M","N","O","P","Q","R",
    "S","T","U","V","W","X","Y","Z">>

LowerCase ==
  <<"a","b","c","d","e","f","g","h","i","j","k","l","m","n","o","p","q","r",
    "s","t","u","v","w","x","y","z">>

\* String.prototype.toLowerCase
toLowerCase(text) ==
  [i \in 1..Len(text) |->
     IF \E k \in 1..26 : UpperCase[k] = text[i]
     THEN LowerCase[CHOOSE k \in 1..26 : UpperCase[k] = text[i]]
     ELSE text[i]]

\* String.prototype.split(' '): the pieces between single space characters
RECURSIVE split(_)
split(text) ==
  IF \A i \in 1..Len(text) : text[i] # " " THEN <<text>>
  ELSE LET i == CHOOSE i \in 1..Len(text) :
                   text[i] = " " /\ \A j \in 1..(i - 1) : text[j] # " "
       IN <<SubSeq(text, 1, i - 1)>> \o split(SubSeq(text, i + 1, Len(text)))

\* String.prototype.includes
includes(text, part) ==
  \E i \in 0..(Len(text) - Len(part)) : SubSeq(text, i + 1, i + Len(part)) = part

brandTerms ==
  << <<"b","r","a","n","d">>, <<"o","f","f","i","c","i","a","l">>,
     <<"s","t","o","r","e">>, <<"s","h","o","p">>, <<"b","u","y">>,
     <<"p","u","r","c","h","a","s","e">> >>

productTerms ==
  << <<"p","r","i","c","e">>, <<"c","o","s","t">>, <<"c","h","e","a","p">>,
     <<"f","r","e","e">>, <<"d","i","s","c","o","u","n","t">>,
     <<"s","a","l","e">> >>

containsBrandTerms(term) ==
  \E k \in 1..Len(brandTerms) : includes(term, brandTerms[k])

containsProductTerms(term) ==
  \E k \in 1..Len(productTerms) : includes(term, productTerms[k])

\* as recommendMatchType, but the brand and product terms are looked for first
recommendMatchTypePhraseFirst(searchTerm) ==
  LET term == toLowerCase(searchTerm) IN
  IF containsBrandTerms(term) \/ containsProductTerms(term) THEN "PHRASE"
  ELSE IF Len(split(term)) = 1 \/ Len(term) <= 3 THEN "EXACT"
  ELSE "BROAD"

recommendMatchType(searchTerm) ==
  LET term == toLowerCase(searchTerm) IN
  IF Len(split(term)) = 1 \/ Len(term) <= 3 THEN "EXACT"
  ELSE IF containsBrandTerms(term) \/ containsProductTerms(term) THEN "PHRASE"
  ELSE "BROAD"

\* searchWords.filter(word => words.some(w => w.includes(word) || word.includes(w)))
matchingWords(searchWords, words) ==
  SelectSeq(searchWords,
            LAMBDA word : \E k \in 1..Len(words) :
                            includes(words[k], word) \/ includes(word, words[k]))

isAdGroupSpecific(searchTerm, adGroupName) ==
  LET adGroupWords == split(toLowerCase(adGroupName))
      searchWords == split(toLowerCase(searchTerm))
  IN 2 * Len(matchingWords(searchWords, adGroupWords)) > Len(searchWords)

isCampaignSpecific(searchTerm, campaignName) ==
  LET campaignWords == split(toLowerCase(campaignName))
      searchWords == split(toLowerCase(searchTerm))
  IN Len(matchingWords(searchWords, campaignWords)) > 0

recommendLevel(item) ==
  IF isAdGroupSpecific(item.searchTerm, item.adGroupName) THEN "AD_GROUP"
  ELSE IF isCampaignSpecific(item.searchTerm, item.campaignName) THEN "CAMPAIGN"
  ELSE "SHARED_LIST"

\* item.conversions === 0 && item.cost > 5 && item.clicks > 0
Qualifies(item) == item.conversions = 0 /\ item.cost > 5 /\ item.clicks > 0

\* the object .map builds for one row
Opportunity(item) ==
  [searchTerm |-> item.searchTerm, cost |-> item.cost, clicks |-> item.clicks,
   conversions |-> item.conversions, potentialSavings |-> item.cost,
   recommendedMatchType |-> recommendMatchType(item.searchTerm),
   recommendedLevel |-> recommendLevel(item),
   campaignName |-> item.campaignName, adGroupName |-> item.adGroupName]

\* Array.prototype.map with the callback above
map(items) == [i \in 1..Len(items) |-> Opportunity(items[i])]

\* as compareFn, but the smaller savings come first
compareFnAscending(a, b) == a.potentialSavings - b.potentialSavings

\* (a, b) => b.potentialSavings - a.potentialSavings
compareFn(a, b) == b.potentialSavings - a.potentialSavings

\* Array.prototype.sort is stable: an item goes before the first item the
\* comparator puts it strictly before, and so after every item it ties with
insert(sorted, item) ==
  LET before == {k \in 1..Len(sorted) : compareFn(item, sorted[k]) < 0}
      at == IF before = {} THEN Len(sorted) + 1
            ELSE CHOOSE k \in before : \A l \in before : k <= l
  IN SubSeq(sorted, 1, at - 1) \o <<item>> \o SubSeq(sorted, at, Len(sorted))

RECURSIVE sort(_)
sort(items) ==
  IF items = <<>> THEN <<>>
  ELSE insert(sort(SubSeq(items, 1, Len(items) - 1)), items[Len(items)])

\* as identifyOpportunities, but rows without clicks are kept
identifyOpportunitiesAnyClicks(data) ==
  sort(map(SelectSeq(data, LAMBDA item : item.conversions = 0 /\ item.cost > 5)))

identifyOpportunities(data) ==
  sort(map(SelectSeq(data, Qualifies)))

\* search terms: one to MaxWords pieces joined by single spaces; the empty
\* piece gives terms that begin or end with a space or hold two in a row
SearchWords ==
  {<<>>, <<"a">>, <<"b","u","y">>, <<"r","e","d">>, <<"S","a","l","e">>,
   <<"s","h","o","e","s">>, <<"s","h","o","p","p","i","n","g">>}

RECURSIVE join(_)
join(pieces) ==
  IF Len(pieces) = 1 THEN pieces[1]
  ELSE pieces[1] \o <<" ">> \o join(Tail(pieces))

SearchTerms ==
  UNION {{join(pieces) : pieces \in [1..n -> SearchWords]} : n \in 1..MaxWords}

PerformanceRows ==
  {[searchTerm |-> searchTerm, campaignName |-> <<"S","h","o","e","s">>,
    adGroupName |-> <<"R","e","d">>, cost |-> cost, clicks |-> clicks,
    conversions |-> conversions] :
     searchTerm \in {<<"f","r","e","e">>, <<"r","e","d"," ","s","h","o","e","s">>},
     cost \in {5, 6, 9}, clicks \in {0, 2}, conversions \in {0, 1}}

ScoreInit ==
  /\ ledger = <<>>
  /\ triggers = [exists |-> FALSE, rows |-> <<>>]
  /\ now = 1
  /\ nextId = 1
  /\ sub = [s \in 1..NumSessions |-> IdleSession]
  /\ wpc = "idle"
  /\ pending = <<>>
  /\ cur = 0
  /\ result = [success |-> FALSE, text |-> <<>>]
  /\ successCount = 0
  /\ failureCount = 0
  /\ allThrew = TRUE
  /\ lastReq = <<>>
  /\ lastResp = NoResponse
  /\ lastRead = <<>>
  /\ lastStatus = NoStatus
  /\ vIn = ReqCampaign
  /\ vOut = NotValidated
  /\ \E n \in 0..MaxScoreRows : sIn \in [1..n -> PerformanceRows]
  /\ sOut = NotScored
  /\ tIn = <<>>
  /\ tOut = NotRecommended
  /\ lIn = NoRow
  /\ lOut = NotLevelled
  /\ dOut = NoMetrics
  /\ cOut = NoMetrics
  /\ addCalls = <<>>
  /\ refresh = <<>>
  /\ twin = NoTwin

\* opportunities = identifyOpportunities(data)
IdentifyOpportunities ==
  /\ sOut = NotScored
  /\ sOut' = identifyOpportunities(sIn)
  /\ UNCHANGED <<ledger, triggers, now, nextId, sub, workerVars, lastReq, lastResp,
                 lastRead, lastStatus, validatorVars, historyVars, sIn, tIn, tOut, lIn, lOut, dOut, cOut>>

ScoreSpec == ScoreInit /\ [][IdentifyOpportunities]_vars

RecommendInit ==
  /\ ledger = <<>>
  /\ triggers = [exists |-> FALSE, rows |-> <<>>]
  /\ now = 1
  /\ nextId = 1
  /\ sub = [s \in 1..NumSessions |-> IdleSession]
  /\ wpc = "idle"
  /\ pending = <<>>
  /\ cur = 0
  /\ result = [success |-> FALSE, text |-> <<>>]
  /\ successCount = 0
  /\ failureCount = 0
  /\ allThrew = TRUE
  /\ lastReq = <<>>
  /\ lastResp = NoResponse
  /\ lastRead = <<>>
  /\ lastStatus = NoStatus
  /\ vIn = ReqCampaign
  /\ vOut = NotValidated
  /\ sIn = <<>>
  /\ sOut = NotScored
  /\ tIn \in SearchTerms
  /\ tOut = NotRecommended
  /\ lIn = NoRow
  /\ lOut = NotLevelled
  /\ dOut = NoMetrics
  /\ cOut = NoMetrics
  /\ addCalls = <<>>
  /\ refresh = <<>>
  /\ twin = NoTwin

\* matchType = recommendMatchType(searchTerm)
RecommendMatchType ==
  /\ tOut = NotRecommended
  /\ tOut' = recommendMatchType(tIn)
  /\ UNCHANGED <<ledger, triggers, now, nextId, sub, workerVars, lastReq, lastResp,
                 lastRead, lastStatus, validatorVars, historyVars, sIn, sOut, tIn, lIn, lOut, dOut, cOut>>

RecommendSpec == RecommendInit /\ [][RecommendMatchType]_vars

----------------------------------------------------------------------------
(* Claims about the Opportunity Scorer *)

\* the rows of data the scorer keeps, by position
QualifyingRows(data) == {i \in 1..Len(data) : Qualifies(data[i])}

\* candidate c was made from row item
MadeFrom(c, item) ==
  /\ c.searchTerm = item.searchTerm
  /\ c.cost = item.cost
  /\ c.clicks = item.clicks
  /\ c.conversions = item.conversions
  /\ c.campaignName = item.campaignName
  /\ c.adGroupName = item.adGroupName

\* the ways of pairing each candidate with a row of its own it was made from
Pairings(data, opportunities) ==
  {f \in [1..Len(opportunities) -> 1..Len(data)] :
     /\ \A k, l \in 1..Len(opportunities) : k # l => f[k] # f[l]
     /\ \A k \in 1..Len(opportunities) : MadeFrom(opportunities[k], data[f[k]])}

\* C28: identifyOpportunities returns exactly one candidate for each row with
\* conversions = 0, cost > 5 and clicks > 0 and none for any other row, and
\* each candidate's potentialSavings is the cost of its row.
C28_OnePerQualifyingRow ==
  sOut # NotScored =>
    /\ \E f \in Pairings(sIn, sOut) :
          {f[k] : k \in 1..Len(sOut)} = QualifyingRows(sIn)
    /\ \A f \in Pairings(sIn, sOut) : \A k \in 1..Len(sOut) :
          /\ Qualifies(sIn[f[k]])
          /\ sOut[k].potentialSavings = sIn[f[k]].cost

\* two rows were scored: one qualifies, the other has no clicks
C28_Witness ==
  /\ Len(sIn) = 2
  /\ Qualifies(sIn[1])
  /\ sIn[2].clicks = 0 /\ sIn[2].conversions = 0 /\ sIn[2].cost > 5
  /\ sOut # NotScored
  /\ Len(sOut) = 1
  /\ sOut[1].potentialSavings = sIn[1].cost

\* C29: the candidates are non-increasing by potentialSavings, and candidates
\* with equal potentialSavings stand in the order of their rows in the input.
C29_RankedStable ==
  sOut # NotScored =>
    /\ \A k, l \in 1..Len(sOut) :
          k < l => sOut[k].potentialSavings >= sOut[l].potentialSavings
    /\ \E f \in Pairings(sIn, sOut) : \A k, l \in 1..Len(sOut) :
          (k < l /\ sOut[k].potentialSavings = sOut[l].potentialSavings)
            => f[k] < f[l]

\* the cheaper row came first in the input and last in the result, or two
\* different rows of equal cost kept their order
C29_Witness ==
  /\ Len(sIn) = 2
  /\ sOut # NotScored
  /\ Len(sOut) = 2
  /\ \/ sIn[1].cost < sIn[2].cost /\ MadeFrom(sOut[1], sIn[2])
     \/ /\ sIn[1].cost = sIn[2].cost
        /\ sIn[1].searchTerm # sIn[2].searchTerm
        /\ MadeFrom(sOut[1], sIn[1])

\* a term is a single token when it holds no space character
SingleToken(term) == \A i \in 1..Len(term) : term[i] # " "

RuleTerms ==
  {brandTerms[k] : k \in 1..Len(brandTerms)}
    \cup {productTerms[k] : k \in 1..Len(productTerms)}

----------------------------------------------------------------------------
(* Placement level of a candidate *)

\* the pipeline before any request: the part of Init the analysis leaves alone
PipelineAtRest ==
  /\ ledger = <<>>
  /\ triggers = [exists |-> FALSE, rows |-> <<>>]
  /\ now = 1
  /\ nextId = 1
  /\ sub = [s \in 1..NumSessions |-> IdleSession]
  /\ wpc = "idle"
  /\ pending = <<>>
  /\ cur = 0
  /\ result = [success |-> FALSE, text |-> <<>>]
  /\ successCount = 0
  /\ failureCount = 0
  /\ allThrew = TRUE
  /\ lastReq = <<>>
  /\ lastResp = NoResponse
  /\ lastRead = <<>>
  /\ lastStatus = NoStatus
  /\ vIn = ReqCampaign
  /\ vOut = NotValidated

\* names of campaigns and ad groups: row[2] || '' and row[3] || '' give the
\* empty name for a blank cell
TargetWords ==
  {<<>>, <<"R","e","d">>, <<"r","e","d"," ","s","h","o","e","s">>,
   <<"S","h","o","e","s"," ">>, <<"S","a","n","d","a","l","s">>}

LevelRows ==
  {[searchTerm |-> searchTerm, campaignName |-> campaignName,
    adGroupName |-> adGroupName] :
     searchTerm \in SearchTerms, campaignName \in TargetWords,
     adGroupName \in TargetWords}

LevelInit ==
  /\ PipelineAtRest
  /\ sIn = <<>>
  /\ sOut = NotScored
  /\ tIn = <<>>
  /\ tOut = NotRecommended
  /\ lIn \in LevelRows
  /\ lOut = NotLevelled
  /\ dOut = NoMetrics
  /\ cOut = NoMetrics
  /\ addCalls = <<>>
  /\ refresh = <<>>
  /\ twin = NoTwin

\* level = recommendLevel(item)
RecommendLevel ==
  /\ lOut = NotLevelled
  /\ lOut' = recommendLevel(lIn)
  /\ UNCHANGED <<ledger, triggers, now, nextId, sub, workerVars, lastReq, lastResp,
                 lastRead, lastStatus, validatorVars, historyVars, sIn, sOut, tIn, tOut, lIn,
                 dOut, cOut>>

LevelSpec == LevelInit /\ [][RecommendLevel]_vars

\* the words of a text: its lower-cased pieces that hold a character
Words(text) == SelectSeq(split(toLowerCase(text)), LAMBDA word : word # <<>>)

\* substring overlap, either direction
Overlap(word, other) == includes(word, other) \/ includes(other, word)

\* how many of the search term's words overlap with a word of the name
OverlappingWords(searchTerm, name) ==
  Cardinality({k \in 1..Len(Words(searchTerm)) :
                 \E j \in 1..Len(Words(name)) :
                    Overlap(Words(searchTerm)[k], Words(name)[j])})

\* C31: recommendLevel returns AD_GROUP exactly when more than half of the
\* search term's words overlap with a word of the ad group name, otherwise
\* CAMPAIGN exactly when at least one of them overlaps with a word of the
\* campaign name, otherwise SHARED_LIST; names without a word give SHARED_LIST.
C31_LevelRules ==
  lOut # NotLevelled =>
    lOut = IF 2 * OverlappingWords(lIn.searchTerm, lIn.adGroupName)
                > Len(Words(lIn.searchTerm))
           THEN "AD_GROUP"
           ELSE IF OverlappingWords(lIn.searchTerm, lIn.campaignName) >= 1
                THEN "CAMPAIGN"
                ELSE "SHARED_LIST"

----------------------------------------------------------------------------
(* Dashboard Aggregator: the client's generateDashboardMetrics and the web
   app's calculateDashboardMetrics. Costs are whole currency units, which
   toFixed(2) and Math.round(x * 100) / 100 leave as they are; the averages
   of the metrics are left out. *)

ManyRows == 12  \* rows of a long performance report

RECURSIVE totalOf(_, _)
\* data.reduce((total, item) => total + item[field], 0)
totalOf(data, field) ==
  IF data = <<>> THEN 0
  ELSE data[1][field] + totalOf(Tail(data), field)

\* Array.prototype.slice(0, end)
slice(items, end) == SubSeq(items, 1, IF Len(items) < end THEN Len(items) ELSE end)

calculateWastedSpend(data) ==
  totalOf(SelectSeq(data, LAMBDA item : item.conversions = 0), "cost")

calculatePotentialSavings(data) ==
  totalOf(SelectSeq(data, LAMBDA item : item.conversions = 0 /\ item.cost > 5),
          "cost")

\* the row-like object generateDashboardMetrics makes of a candidate
TopEntry(opp) ==
  [id |-> opp.searchTerm \o <<"-">> \o opp.campaignName \o <<"-">> \o opp.adGroupName,
   searchTerm |-> opp.searchTerm, campaignName |-> opp.campaignName,
   adGroupName |-> opp.adGroupName, keywordText |-> opp.searchTerm,
   cost |-> opp.cost, clicks |-> opp.clicks, impressions |-> opp.clicks * 10,
   conversions |-> opp.conversions]

generateDashboardMetrics(data) ==
  LET opportunities == slice(sort(identifyOpportunities(data)), 10) IN
  [totalSearchTerms |-> Len(data),
   totalCost |-> totalOf(data, "cost"),
   totalClicks |-> totalOf(data, "clicks"),
   totalConversions |-> totalOf(data, "conversions"),
   wastedSpend |-> calculateWastedSpend(data),
   potentialSavings |-> calculatePotentialSavings(data),
   topNegativeKeywordOpportunities |->
     [k \in 1..Len(opportunities) |-> TopEntry(opportunities[k])]]

\* the row of the search terms sheet that holds a performance row: columns
\* id, search term, campaign, ad group, cost, clicks, impressions, conversions
sheetRow(item) ==
  <<<<>>, item.searchTerm, item.campaignName, item.adGroupName, item.cost,
    item.clicks, item.clicks * 10, item.conversions>>

\* the object calculateDashboardMetrics pushes for a sheet row
pushed(row) ==
  [searchTerm |-> row[2], cost |-> row[5], clicks |-> row[6],
   conversions |-> row[8], potentialSavings |-> row[5],
   campaignName |-> row[3], adGroupName |-> row[4]]

getEmptyMetrics ==
  [totalSearchTerms |-> 0, totalCost |-> 0, totalClicks |-> 0,
   totalConversions |-> 0, wastedSpend |-> 0, potentialSavings |-> 0,
   topNegativeKeywordOpportunities |-> <<>>]

\* calculateDashboardMetrics on the data rows of the sheet (header excluded)
calculateDashboardMetrics(rows) ==
  IF Len(rows) + 1 <= 1 THEN getEmptyMetrics
  ELSE
    LET wasted == SelectSeq(rows, LAMBDA row : row[8] = 0)
        costly == SelectSeq(wasted, LAMBDA row : row[5] > 5)
        opportunities == sort([k \in 1..Len(costly) |-> pushed(costly[k])])
    IN [totalSearchTerms |-> Len(rows),
        totalCost |-> totalOf(rows, 5),
        totalClicks |-> totalOf(rows, 6),
        totalConversions |-> totalOf(rows, 8),
        wastedSpend |-> totalOf(wasted, 5),
        potentialSavings |-> totalOf(costly, 5),
        topNegativeKeywordOpportunities |-> slice(opportunities, 10)]

\* a long report: every row qualifies, the costs go up and down
LongReport ==
  [k \in 1..ManyRows |->
     [searchTerm |-> <<"f","r","e","e">>, campaignName |-> <<"S","h","o","e","s">>,
      adGroupName |-> <<"R","e","d">>, cost |-> 6 + (k % 3), clicks |-> k,
      conversions |-> 0]]

DashboardInit ==
  /\ PipelineAtRest
  /\ \/ \E n \in 0..MaxScoreRows : sIn \in [1..n -> PerformanceRows]
     \/ sIn = LongReport
  /\ sOut = NotScored
  /\ tIn = <<>>
  /\ tOut = NotRecommended
  /\ lIn = NoRow
  /\ lOut = NotLevelled
  /\ dOut = NoMetrics
  /\ cOut = NoMetrics
  /\ addCalls = <<>>
  /\ refresh = <<>>
  /\ twin = NoTwin

\* the client: metrics = generateDashboardMetrics(data)
GenerateDashboardMetrics ==
  /\ dOut = NoMetrics
  /\ dOut' = generateDashboardMetrics(sIn)
  /\ UNCHANGED <<ledger, triggers, now, nextId, sub, workerVars, lastReq, lastResp,
                 lastRead, lastStatus, validatorVars, historyVars, sIn, sOut, tIn, tOut, lIn,
                 lOut, cOut>>

\* the web app: handleGetDashboard on the sheet that holds the same rows
HandleGetDashboard ==
  /\ cOut = NoMetrics
  /\ cOut' = calculateDashboardMetrics([k \in 1..Len(sIn) |-> sheetRow(sIn[k])])
  /\ UNCHANGED <<ledger, triggers, now, nextId, sub, workerVars, lastReq, lastResp,
                 lastRead, lastStatus, validatorVars, historyVars, sIn, sOut, tIn, tOut, lIn,
                 lOut, dOut>>

DashboardNext ==
  \/ GenerateDashboardMetrics
  \/ HandleGetDashboard

DashboardSpec == DashboardInit /\ [][DashboardNext]_vars

\* C32: the dashboard's potentialSavings is the sum of potentialSavings over
\* the candidates identifyOpportunities returns for the same rows.
C32_SavingsAgree ==
  dOut # NoMetrics =>
    dOut.potentialSavings = totalOf(identifyOpportunities(sIn), "potentialSavings")

\* top holds the first 10 (or all) of the ranked candidates of data, each made
\* from a row that qualifies
TopOfRanked(top, data) ==
  LET ranked == identifyOpportunities(data) IN
  /\ Len(top) <= 10
  /\ Len(top) = IF Len(ranked) < 10 THEN Len(ranked) ELSE 10
  /\ \A k \in 1..Len(top) :
        /\ k <= Len(ranked) => MadeFrom(top[k], ranked[k])
        /\ top[k].conversions = 0 /\ top[k].cost > 5 /\ top[k].clicks > 0

\* C33: topNegativeKeywordOpportunities is the first 10 entries (or all) of
\* the Scorer's ranked candidates for the same rows, each from a qualifying
\* row, in the client's metrics and in the web app's.
C33_TopTenOfRanked ==
  /\ dOut # NoMetrics => TopOfRanked(dOut.topNegativeKeywordOpportunities, sIn)
  /\ cOut # NoMetrics => TopOfRanked(cOut.topNegativeKeywordOpportunities, sIn)

----------------------------------------------------------------------------
(* Claims about the Worker's writes *)

\* C34: the outcome of a pending request is written to the Ledger row that
\* holds the request's id, also after a removal between the scan and the
\* write, and the write changes no other row.
C34_OutcomeOnOwnRow ==
  [][WorkerUpdateKeywordStatus =>
       /\ \A i \in 1..Len(ledger') :
             (i > Len(ledger) \/ ledger'[i] # ledger[i])
               => ledger'[i].id = pending[cur].id
       /\ \A i \in 1..Len(ledger) :
             ledger[i].id = pending[cur].id
               => /\ i <= Len(ledger')
                  /\ ledger'[i].status = IF result.success THEN "ACTIVE" ELSE "FAILED"]_vars

----------------------------------------------------------------------------
(* Runs in which a write of updateKeywordStatus throws. The try/catch of
   updateKeywordStatus logs the exception, so the forEach goes on as if the
   row had been written. *)

MaxFaultIds == 2  \* requests ever admitted where writes may throw
MaxAddCalls == 3  \* add operations after which no write throws any more

\* the account's add operation is invoked: the target was found
addInvoked(keyword, outcome) ==
  callsAccount(keyword) /\ outcome.kind \in {"added", "rejected"}

\* addNegativeKeywordToGoogleAds(keyword), the invocation of add recorded
WorkerDispatchRecorded(outcome) ==
  /\ DispatchStep(outcome)
  /\ addCalls' = IF addInvoked(pending[cur], outcome)
                 THEN Append(addCalls, pending[cur].id) ELSE addCalls
  /\ UNCHANGED <<refresh, twin>>

\* updateKeywordStatus: the setValue after `written` cells throws, the catch
\* logs it and the forEach moves to the next keyword
WorkerUpdateKeywordStatusThrows(written) ==
  /\ wpc = "update"
  /\ ledger' =
       IF written = 0 THEN ledger
       ELSE IF written = 1
       THEN setValue(ledger, pending[cur].rowIndex, "status",
                     IF result.success THEN "ACTIVE" ELSE "FAILED")
       ELSE setValue(setValue(ledger, pending[cur].rowIndex, "status",
                              IF result.success THEN "ACTIVE" ELSE "FAILED"),
                     pending[cur].rowIndex, "message", result.text)
  /\ IF cur < Len(pending)
     THEN cur' = cur + 1 /\ wpc' = "dispatch"
     ELSE cur' = cur /\ wpc' = "summary"
  /\ result' = NoResult
  /\ UNCHANGED <<triggers, now, nextId, sub, pending, successCount,
                 failureCount, allThrew, lastReq, lastResp, lastRead,
                 lastStatus, validatorVars, analysisVars, historyVars>>

FaultNext ==
  \/ Submit(WorkBatches, MaxFaultIds)
  \/ WorkerScan
  \/ \E outcome \in Outcomes : WorkerDispatchRecorded(outcome)
  \/ WorkerUpdateKeywordStatus
  \/ \E written \in 0..2 :
        Len(addCalls) < MaxAddCalls /\ WorkerUpdateKeywordStatusThrows(written)
  \/ WorkerSummary

FaultSpec == Init /\ [][FaultNext]_vars

\* C35: across all runs the account's add operation is invoked at most once
\* for a request id, also when the write of the outcome fails after the call.
C35_AddInvokedOnce ==
  \A i, j \in 1..Len(addCalls) : i # j => addCalls[i] # addCalls[j]

\* C36: a row of the Ledger becomes ACTIVE only by the write of an outcome
\* the account reported as a success for the request of that row.
C36_ActiveOnlyAfterSuccess ==
  [][\A i \in 1..Len(ledger') :
        (/\ ledger'[i].status = "ACTIVE"
         /\ \A j \in RowsWithId(ledger, ledger'[i].id) : ledger[j].status # "ACTIVE")
          => /\ wpc = "update"
             /\ result.success
             /\ pending[cur].id = ledger'[i].id]_vars

\* the rows of the run's snapshot that hold this status now
RowsSetTo(status) ==
  {k \in 1..Len(pending) :
     /\ pending[k].rowIndex - 1 <= Len(ledger)
     /\ ledger[pending[k].rowIndex - 1].status = status}

\* C38: when a run that scanned n pending rows comes to its summary,
\* successCount + failureCount = n, successCount is the number of rows the run
\* set to ACTIVE and failureCount the number of rows it set to FAILED.
C38_SummaryCounts ==
  wpc = "summary" =>
    /\ successCount + failureCount = Len(pending)
    /\ successCount = Cardinality(RowsSetTo("ACTIVE"))
    /\ failureCount = Cardinality(RowsSetTo("FAILED"))

----------------------------------------------------------------------------
(* main with its two reference-data refreshes. Both functions catch whatever
   their body throws and log it; the sheets they write are not part of the
   model, a refresh is recorded with whether it went through. *)

MaxMainIds == 2  \* requests ever admitted where main is studied step by step

\* updateCampaignAndAdGroupData(), the first call of main
UpdateCampaignAndAdGroupData(ok) ==
  /\ wpc = "idle"
  /\ refresh = <<>>
  /\ refresh' = <<[data |-> "campaigns", ok |-> ok]>>
  /\ UNCHANGED <<ledger, triggers, now, nextId, sub, workerVars, lastReq, lastResp,
                 lastRead, lastStatus, validatorVars, analysisVars, addCalls, twin>>

\* updateSharedListData(), the second call of main
UpdateSharedListData(ok) ==
  /\ wpc = "idle"
  /\ Len(refresh) = 1
  /\ refresh' = Append(refresh, [data |-> "sharedLists", ok |-> ok])
  /\ UNCHANGED <<ledger, triggers, now, nextId, sub, workerVars, lastReq, lastResp,
                 lastRead, lastStatus, validatorVars, analysisVars, addCalls, twin>>

\* as MainProcess, but main returns without a scan after a failed refresh
MainProcessAfterGoodRefresh ==
  /\ Len(refresh) = 2
  /\ IF refresh[1].ok /\ refresh[2].ok
     THEN /\ ScanStep
          /\ refresh' = IF pending' = <<>> THEN <<>> ELSE refresh
     ELSE /\ wpc = "idle"
          /\ refresh' = <<>>
          /\ UNCHANGED <<ledger, triggers, now, nextId, sub, workerVars, lastReq,
                         lastResp, lastRead, lastStatus, validatorVars, analysisVars>>
  /\ UNCHANGED <<addCalls, twin>>

\* processPendingNegativeKeywords() up to the scan, the third call of main;
\* with nothing pending it returns and main ends
MainProcess ==
  /\ Len(refresh) = 2
  /\ ScanStep
  /\ refresh' = IF pending' = <<>> THEN <<>> ELSE refresh
  /\ UNCHANGED <<addCalls, twin>>

\* the end of processPendingNegativeKeywords and of main
MainSummary ==
  /\ SummaryStep
  /\ refresh' = <<>>
  /\ UNCHANGED <<addCalls, twin>>

MainNext ==
  \/ Submit(WorkBatches, MaxMainIds)
  \/ \E ok \in BOOLEAN : UpdateCampaignAndAdGroupData(ok)
  \/ \E ok \in BOOLEAN : UpdateSharedListData(ok)
  \/ MainProcess
  \/ \E outcome \in Outcomes : WorkerDispatch(outcome)
  \/ WorkerUpdateKeywordStatus
  \/ MainSummary

MainSpec == Init /\ [][MainNext]_vars

\* C37: in every run both refreshes, the campaign and ad group data first and
\* the shared list data second, are attempted before a pending request is
\* dispatched, and after them the run scans and dispatches the pending
\* requests whether the refreshes failed or not.
C37_RefreshThenProcess ==
  /\ [](wpc # "idle" =>
          /\ Len(refresh) = 2
          /\ refresh[1].data = "campaigns"
          /\ refresh[2].data = "sharedLists")
  /\ []((wpc = "idle" /\ Len(refresh) = 2) => ENABLED MainProcess)
  /\ [][(wpc = "idle" /\ Len(refresh) = 2 /\ (refresh' # refresh \/ wpc' # wpc))
          => /\ pending' = getPendingKeywords(ledger)
             /\ (pending' # <<>> => wpc' = "dispatch")]_vars

\* both refreshes failed and the run has added a pending request
C37_Witness ==
  /\ Len(refresh) = 2
  /\ ~refresh[1].ok
  /\ ~refresh[2].ok
  /\ wpc = "update"
  /\ result.success

----------------------------------------------------------------------------
(* Two runs of the Worker next to each other: the same Negative Keywords
   sheet and the same answers of the account, two ProcessingTriggers sheets *)

MaxTwinRows == 2  \* rows of the Negative Keywords sheet the two runs start from

\* the result of addNegativeKeywordToGoogleAds for the k-th pending keyword
resultOf(keywords, outcomes, k) ==
  addNegativeKeywordToGoogleAds(keywords[k], outcomes[k])

\* pendingKeywords.forEach of processPendingNegativeKeywords from the k-th
\* keyword on: the sheet after the updateKeywordStatus calls
RECURSIVE forEach(_, _, _, _, _)
forEach(sheet, keywords, outcomes, k, date) ==
  IF k > Len(keywords) THEN sheet
  ELSE forEach(updateKeywordStatus(sheet, keywords[k].rowIndex,
                                   IF resultOf(keywords, outcomes, k).success
                                   THEN "ACTIVE" ELSE "FAILED",
                                   resultOf(keywords, outcomes, k).text, date),
               keywords, outcomes, k + 1, date)

\* the results array of processPendingNegativeKeywords
results(keywords, outcomes) ==
  [k \in 1..Len(keywords) |->
     [id |-> keywords[k].id,
      status |-> IF resultOf(keywords, outcomes, k).success THEN "ACTIVE" ELSE "FAILED",
      message |-> resultOf(keywords, outcomes, k).text]]

\* successCount or failureCount at the end of the forEach
countOf(keywords, outcomes, status) ==
  Cardinality({k \in 1..Len(keywords) : results(keywords, outcomes)[k].status = status})

\* as processPendingNegativeKeywords, but the run looks for a PENDING trigger
\* first and returns when there is none
processPendingNegativeKeywordsOnTrigger(sheet, trig, outcomes, date) ==
  IF getPendingKeywords(sheet) = <<>> \/ lastPendingTrigger(trig.rows) = 0
  THEN [ledger |-> sheet, triggers |-> trig, results |-> <<>>]
  ELSE [ledger |-> forEach(sheet, getPendingKeywords(sheet), outcomes, 1, date),
        triggers |->
          updateProcessingTriggerStatus(
            trig, countOf(getPendingKeywords(sheet), outcomes, "ACTIVE"),
            countOf(getPendingKeywords(sheet), outcomes, "FAILED"), date),
        results |-> results(getPendingKeywords(sheet), outcomes)]

\* one whole run of processPendingNegativeKeywords: the two sheets after it
\* and the results it returns
processPendingNegativeKeywords(sheet, trig, outcomes, date) ==
  IF getPendingKeywords(sheet) = <<>>
  THEN [ledger |-> sheet, triggers |-> trig, results |-> <<>>]
  ELSE [ledger |-> forEach(sheet, getPendingKeywords(sheet), outcomes, 1, date),
        triggers |->
          updateProcessingTriggerStatus(
            trig, countOf(getPendingKeywords(sheet), outcomes, "ACTIVE"),
            countOf(getPendingKeywords(sheet), outcomes, "FAILED"), date),
        results |-> results(getPendingKeywords(sheet), outcomes)]

\* rows as addNegativeKeywords writes them, each one waiting or processed
\* by an earlier run
TwinLedgers ==
  UNION {{[i \in 1..n |-> [newRows(batch, 1, 1)[i] EXCEPT !.status = statuses[i]]] :
            batch \in [1..n -> {ReqCampaign, ReqNoAdGroup}],
            statuses \in [1..n -> {"PENDING", "ACTIVE"}]} :
         n \in 0..MaxTwinRows}

\* a row of the ProcessingTriggers sheet, waiting or completed by an earlier run
TriggerRow(status) ==
  [action |-> "PROCESS_NEGATIVE_KEYWORDS", timestamp |-> 1, status |-> status,
   message |-> IF status = "COMPLETED" THEN <<"Processed: ", 1, 0>> ELSE <<>>,
   processedDate |-> IF status = "COMPLETED" THEN 1 ELSE 0]

\* the ProcessingTriggers sheet: absent, empty, or any mix of PENDING and
\* COMPLETED rows
TriggerSheets ==
  {[exists |-> FALSE, rows |-> <<>>]} \cup
  {[exists |-> TRUE, rows |-> [i \in 1..Len(statuses) |-> TriggerRow(statuses[i])]] :
     statuses \in UNION {[1..n -> {"PENDING", "COMPLETED"}] : n \in 0..MaxTriggers}}

\* what the account answers to the first, second, ... resolve-and-add of a run
TwinOutcomes == [1..MaxTwinRows -> FrameOutcomes]

TwinInit ==
  /\ ledger \in TwinLedgers
  /\ triggers = [exists |-> FALSE, rows |-> <<>>]
  /\ now = 1
  /\ nextId = MaxTwinRows + 1
  /\ sub = [s \in 1..NumSessions |-> IdleSession]
  /\ wpc = "idle"
  /\ pending = <<>>
  /\ cur = 0
  /\ result = [success |-> FALSE, text |-> <<>>]
  /\ successCount = 0
  /\ failureCount = 0
  /\ allThrew = TRUE
  /\ lastReq = <<>>
  /\ lastResp = NoResponse
  /\ lastRead = <<>>
  /\ lastStatus = NoStatus
  /\ vIn = ReqCampaign
  /\ vOut = NotValidated
  /\ sIn = <<>>
  /\ sOut = NotScored
  /\ tIn = <<>>
  /\ tOut = NotRecommended
  /\ lIn = NoRow
  /\ lOut = NotLevelled
  /\ dOut = NoMetrics
  /\ cOut = NoMetrics
  /\ addCalls = <<>>
  /\ refresh = <<>>
  /\ twin = NoTwin

\* two runs from the same Negative Keywords sheet, the account answering alike
TwinRuns(first, second, outcomes) ==
  /\ ~twin.compared
  /\ twin' = [compared |-> TRUE,
              before |-> <<first, second>>,
              first |-> processPendingNegativeKeywords(ledger, first, outcomes, now),
              second |-> processPendingNegativeKeywords(ledger, second, outcomes, now)]
  /\ UNCHANGED <<ledger, triggers, now, nextId, sub, workerVars, lastReq, lastResp,
                 lastRead, lastStatus, validatorVars, analysisVars, addCalls, refresh>>

TwinNext ==
  \E first, second \in TriggerSheets : \E outcomes \in TwinOutcomes :
     TwinRuns(first, second, outcomes)

TwinSpec == TwinInit /\ [][TwinNext]_vars

\* C39: two runs of the Worker that start from the same Negative Keywords
\* sheet and get the same answers from the account, with ProcessingTriggers
\* sheets that differ (absent, empty, any mix of PENDING and COMPLETED rows),
\* process the same requests in the same order and leave the same Negative
\* Keywords sheet: the same statuses, messages and processed dates.
C39_TriggersDoNotInfluence ==
  twin.compared =>
    /\ twin.first.results = twin.second.results
    /\ twin.first.ledger = twin.second.ledger

\* two requests were processed, once with no ProcessingTriggers sheet and
\* once with a sheet that holds a PENDING and a COMPLETED row
C39_Witness ==
  /\ twin.compared
  /\ ~twin.before[1].exists
  /\ \E i, j \in 1..Len(twin.before[2].rows) :
        /\ twin.before[2].rows[i].status = "PENDING"
        /\ twin.before[2].rows[j].status = "COMPLETED"
  /\ Len(twin.first.results) = 2
  /\ twin.first.results[1].status = "ACTIVE"
  /\ twin.first.results[2].status = "FAILED"
  /\ twin.first.ledger # ledger

----------------------------------------------------------------------------
(* The ProcessingTriggers sheet under repeated runs: the scheduler keeps
   running the Worker and the processing status keeps being read *)

\* a run of main as the scheduler starts it, with the answers of FrameOutcomes
ScheduledWorker ==
  \/ WorkerScan
  \/ \E outcome \in FrameOutcomes : WorkerDispatch(outcome)
  \/ WorkerUpdateKeywordStatus
  \/ WorkerSummary

TriggerSpec ==
  /\ Init
  /\ [][StatusNext]_vars
  /\ WF_vars(ScheduledWorker)
  /\ WF_vars(HandleGetProcessingStatus)

\* C40: under repeated Worker runs every row of the ProcessingTriggers sheet
\* appended with status PENDING is eventually COMPLETED, and the processing
\* status read after the last submission and the last trigger request
\* eventually reports no pending request and "Up to date" for good.
C40_TriggersEventuallyCompleted ==
  /\ \A i \in 1..MaxTriggers :
        (Len(triggers.rows) >= i /\ triggers.rows[i].status = "PENDING")
          ~> (Len(triggers.rows) >= i /\ triggers.rows[i].status = "COMPLETED")
  /\ <>[](triggers.exists =>
            /\ lastStatus.pendingRequests = 0
            /\ lastStatus.status = "Up to date")

====
